---- MODULE Spec2Model ----
(***************************************************************************)
(* Model of the adventure simulator (SIMULADOR_AVENTURAS): character       *)
(* records, the three kinds of events, the probability calculator and the  *)
(* per-character simulation loop of SimuladorAventuras.simular_individual. *)
(***************************************************************************)
EXTENDS Integers, Sequences, FiniteSets, TLC

(***************************************************************************)
(* Bounds of the model                                                     *)
(***************************************************************************)
\* largest roster loaded in a run
MaxPersonajes == 2
\* largest configured eventos_por_personaje
MaxEventos == 2
\* random.random() takes the ResProb values k/ResProb, and the configured
\* probabilities the values k/ResProb up to 1; both are held in percent
ResProb == 2
\* largest number of inner-loop iterations of a run (roster size times
\* eventos_por_personaje)
MaxTurnos == 2
\* the d100 values drawn in the simulation loop are 1, 100 and the multiples of PasoDado
PasoDado == 50
\* longest sequence of direct aplicar_consecuencias calls on one record
MaxDirecto == 1
\* largest magnitude of a legacy integer counter found in RESERVADO1
MaxLegacy == 2

(***************************************************************************)
(* Program constants                                                       *)
(***************************************************************************)
\* random.randint(1, 100)
D100 == 100
\* UmbralesD100
UMBRAL_EXITO_EPICO == 150
UMBRAL_EXITO == 100
UMBRAL_NORMAL == 60
UMBRAL_FRACASO == 30
\* EventoAtributo.prob_muerte before main overwrites it (0.3), in percent
PROB_MUERTE_DEFECTO == 30

None == "None"

\* IndicesPersonaje.ATRIBUTOS_ABS, in the order F, RM, RF, A, I, M, E, C
ATRIBUTOS_ABS == <<"F", "RM", "RF", "A", "I", "M", "E", "C">>

Atributos == {ATRIBUTOS_ABS[k] : k \in 1..Len(ATRIBUTOS_ABS)}

\* ResultadoEvento: the value of each member
ResultadoEvento == [EXITO_EPICO |-> 3, EXITO |-> 1, NORMAL |-> 0,
                    FRACASO |-> -1, FRACASO_EPICO |-> -3]

Resultados == DOMAIN ResultadoEvento

\* Python's abs()
Abs(x) == IF x < 0 THEN -x ELSE x

\* Python's max(0, x)
Max0(x) == IF x < 0 THEN 0 ELSE x

\* obtener_indice_atributo: an unknown attribute name falls back to F
obtener_indice_atributo(atributo) == IF atributo \in Atributos THEN atributo ELSE "F"

RECURSIVE SumaSeq(_, _)
SumaSeq(abs, k) == IF k = 0 THEN 0 ELSE abs[ATRIBUTOS_ABS[k]] + SumaSeq(abs, k - 1)

\* the sum over the eight absolute attributes
SumaAtributos(abs) == SumaSeq(abs, Len(ATRIBUTOS_ABS))

\* lectorv4.py classify_character: the hero tiers by total, then the count of
\* extreme attributes
classify_character(abs, suma_total) ==
    LET valores_extremos == Cardinality({a \in Atributos : abs[a] >= 120 \/ abs[a] <= -20})
    IN IF suma_total >= 530 THEN "Heroe Legendario"
       ELSE IF suma_total >= 490 THEN "Heroe Mayor"
       ELSE IF suma_total >= 450 THEN "Heroe"
       ELSE IF valores_extremos >= 2 THEN "Aberrante"
       ELSE "Normal"

\* a plausible slip: the tag is recomputed whenever the total is
recalcular_suma_total_reclasifica(p) ==
    [p EXCEPT !.suma = SumaAtributos(p.abs),
              !.tipo = classify_character(p.abs, SumaAtributos(p.abs))]

\* a plausible slip: the stored total is left as it was
recalcular_suma_total_omitido(p) == p

\* recalcular_suma_total: personaje[23] = sum of the eight absolute attributes
recalcular_suma_total(p) == [p EXCEPT !.suma = SumaAtributos(p.abs)]

\* a plausible slip: the attribute is left negative
asegurar_no_negativo_omitido(p, idx) == p

\* asegurar_no_negativo: a negative attribute is set to 0
asegurar_no_negativo(p, idx) == IF p.abs[idx] < 0 THEN [p EXCEPT !.abs[idx] = 0] ELSE p

\* personaje[idx] += delta
Sumar(p, idx, delta) == [p EXCEPT !.abs[idx] = @ + delta]

(***************************************************************************)
(* RESERVADO1: the open-ended field holding the characteristic list.  t is *)
(* the shape of the value: "falta" (the record is too short to have the    *)
(* field), "None", "list", "int" (legacy counter n) or "otro".             *)
(***************************************************************************)
Reservado(t, lista, n) == [t |-> t, lista |-> lista, n |-> n]

ReservadoNone == Reservado("None", <<>>, 0)

(***************************************************************************)
(* Events.  One record shape for the three kinds; clase is the Python      *)
(* class of the event object.                                              *)
(***************************************************************************)
Evento(id, tipo, clase, pri, sec, be, bf, pen, prob, fuerza, bend, efecto) ==
    [id |-> id, tipo |-> tipo, clase |-> clase,
     atributo_principal |-> pri, atributo_secundario |-> sec,
     bonus_exito |-> be, bonus_fracaso |-> bf, penalizacion |-> pen,
     probabilidad_exito |-> prob,
     fuerza |-> fuerza, es_bendicion |-> bend, efecto |-> efecto]

EventoAtributo(id, pri, sec) ==
    Evento(id, "atributo", "EventoAtributo", pri, sec, 0, 0, 0, 0, "", FALSE, "")

EventoEquipoSimple(id, atributo, be, bf, prob) ==
    Evento(id, "equipo", "EventoEquipoSimple", atributo, None, be, bf, 0, prob, "", FALSE, "")

EventoEquipoDoble(id, pri, sec, be, pen, prob) ==
    Evento(id, "equipo", "EventoEquipoDoble", pri, sec, be, 0, pen, prob, "", FALSE, "")

EventoEquipoGlobal(id, be, prob) ==
    Evento(id, "equipo", "EventoEquipoGlobal", None, None, be, 0, 0, prob, "", FALSE, "")

EventoCaracteristica(id, fuerza, bend, efecto) ==
    Evento(id, "caracteristica", "EventoCaracteristica", None, None, 0, 0, 0, 0,
           fuerza, bend, efecto)

\* the elements of a list
Rango(s) == {s[k] : k \in 1..Len(s)}

\* the event definitions of datos/eventos_atributos.json used by the model, in
\* the order of the file
DatosAtributo ==
    << EventoAtributo("A1", "F", "RF"),
       EventoAtributo("A2", "M", None) >>

\* the event definitions of datos/eventos_equipo.json used by the model
DatosEquipo ==
    << EventoEquipoSimple("E1", "F", 5, -2, 60),
       EventoEquipoDoble("E2", "RM", "RF", 5, -3, 50),
       EventoEquipoGlobal("E3", 2, 80) >>

\* the event definitions of datos/eventos_caracteristicas.json used by the model
DatosCaracteristica ==
    << EventoCaracteristica("C1", "Bendicion de la Vida", TRUE, "resistencia"),
       EventoCaracteristica("C2", "Maldicion Demoniaca", FALSE, "marca") >>

(***************************************************************************)
(* gestor_atributos.py: EventoAtributo                                     *)
(***************************************************************************)
\* the last-roll diagnostic kept on the event object
Tirada(dado, pri, sec, total) == [dado |-> dado, principal |-> pri, secundario |-> sec, total |-> total]

SinTirada == Tirada(0, 0, 0, 0)

\* calcular_resultado, the diagnostic: contributions and total of the roll
ultima_tirada(evento, p, tirada) ==
    LET valor_principal == p.abs[obtener_indice_atributo(evento.atributo_principal)]
        contrib_secundario ==
            IF evento.atributo_secundario # None
            THEN p.abs[obtener_indice_atributo(evento.atributo_secundario)] \div 4
            ELSE 0
        contrib_principal == valor_principal \div 2
    IN Tirada(tirada, contrib_principal, contrib_secundario,
              tirada + contrib_principal + contrib_secundario)

\* a plausible slip: the thresholds are compared before the natural rolls
ResultadoDeTiradaSinNaturales(t) ==
    IF t.total >= UMBRAL_EXITO_EPICO THEN "EXITO_EPICO"
    ELSE IF t.total >= UMBRAL_EXITO THEN "EXITO"
    ELSE IF t.total >= UMBRAL_NORMAL THEN "NORMAL"
    ELSE IF t.total >= UMBRAL_FRACASO THEN "FRACASO"
    ELSE IF t.dado = D100 THEN "EXITO_EPICO"
    ELSE "FRACASO_EPICO"

\* calcular_resultado, the decision: natural rolls first, then the thresholds
ResultadoDeTirada(t) ==
    IF t.dado = D100 THEN "EXITO_EPICO"
    ELSE IF t.dado = 1 THEN "FRACASO_EPICO"
    ELSE IF t.total >= UMBRAL_EXITO_EPICO THEN "EXITO_EPICO"
    ELSE IF t.total >= UMBRAL_EXITO THEN "EXITO"
    ELSE IF t.total >= UMBRAL_NORMAL THEN "NORMAL"
    ELSE IF t.total >= UMBRAL_FRACASO THEN "FRACASO"
    ELSE "FRACASO_EPICO"

\* EventoAtributo.calcular_resultado for the drawn die value
calcular_resultado_atributo(evento, p, tirada) ==
    ResultadoDeTirada(ultima_tirada(evento, p, tirada))

\* a plausible slip: the secondary attribute follows every outcome but NORMAL
aplicar_consecuencias_atributo_secundario_siempre(evento, p, resultado) ==
    IF resultado = None THEN p
    ELSE LET v == ResultadoEvento[resultado]
             idx_principal == obtener_indice_atributo(evento.atributo_principal)
             p1 == asegurar_no_negativo(Sumar(p, idx_principal, v), idx_principal)
             p2 == IF evento.atributo_secundario # None /\ Abs(v) >= 1
                   THEN LET idx_secundario == obtener_indice_atributo(evento.atributo_secundario)
                            cambio_secundario == IF v > 0 THEN 1 ELSE -1
                        IN asegurar_no_negativo(Sumar(p1, idx_secundario, cambio_secundario),
                                                idx_secundario)
                   ELSE p1
         IN recalcular_suma_total(p2)

\* EventoAtributo.aplicar_consecuencias
aplicar_consecuencias_atributo(evento, p, resultado) ==
    IF resultado = None THEN p
    ELSE LET v == ResultadoEvento[resultado]
             idx_principal == obtener_indice_atributo(evento.atributo_principal)
             p1 == asegurar_no_negativo(Sumar(p, idx_principal, v), idx_principal)
             p2 == IF evento.atributo_secundario # None /\ Abs(v) >= 3
                   THEN LET idx_secundario == obtener_indice_atributo(evento.atributo_secundario)
                            cambio_secundario == IF v > 0 THEN 1 ELSE -1
                        IN asegurar_no_negativo(Sumar(p1, idx_secundario, cambio_secundario),
                                                idx_secundario)
                   ELSE p1
         IN recalcular_suma_total(p2)

\* a plausible slip: the death roll is made for every outcome
probar_muerte_siempre(resultado, r, prob_muerte) == r < prob_muerte

\* EventoAtributo.probar_muerte: r is the value of random.random()
probar_muerte(resultado, r, prob_muerte) ==
    IF resultado # "FRACASO_EPICO" THEN FALSE ELSE r < prob_muerte

(***************************************************************************)
(* gestor_equipo.py: the three Equipment sub-variants                      *)
(***************************************************************************)
\* calcular_resultado of the three classes: r is the value of random.random()
calcular_resultado_equipo(evento, r) ==
    IF r < evento.probabilidad_exito THEN "EXITO" ELSE "FRACASO"

\* EventoEquipoSimple.aplicar_consecuencias
aplicar_consecuencias_simple(evento, p, resultado) ==
    IF resultado = None THEN p
    ELSE LET idx == obtener_indice_atributo(evento.atributo_principal)
             p1 == IF resultado = "EXITO" THEN Sumar(p, idx, evento.bonus_exito)
                   ELSE IF resultado = "FRACASO" THEN Sumar(p, idx, evento.bonus_fracaso)
                   ELSE p
         IN recalcular_suma_total(asegurar_no_negativo(p1, idx))

\* a plausible slip: a failure still costs the penalty on the secondary
aplicar_consecuencias_doble_penaliza_fracaso(evento, p, resultado) ==
    IF resultado = None THEN p
    ELSE LET idx_pri == obtener_indice_atributo(evento.atributo_principal)
             idx_sec == obtener_indice_atributo(evento.atributo_secundario)
             p1 == IF resultado = "EXITO"
                   THEN Sumar(Sumar(p, idx_pri, evento.bonus_exito), idx_sec, evento.penalizacion)
                   ELSE Sumar(p, idx_sec, evento.penalizacion)
         IN recalcular_suma_total(
                asegurar_no_negativo(asegurar_no_negativo(p1, idx_pri), idx_sec))

\* EventoEquipoDoble.aplicar_consecuencias
aplicar_consecuencias_doble(evento, p, resultado) ==
    IF resultado = None \/ resultado # "EXITO" THEN p
    ELSE LET idx_pri == obtener_indice_atributo(evento.atributo_principal)
             idx_sec == obtener_indice_atributo(evento.atributo_secundario)
             p1 == Sumar(Sumar(p, idx_pri, evento.bonus_exito), idx_sec, evento.penalizacion)
         IN recalcular_suma_total(
                asegurar_no_negativo(asegurar_no_negativo(p1, idx_pri), idx_sec))

RECURSIVE GlobalDesde(_, _, _)
\* the loop of EventoEquipoGlobal over ATRIBUTOS_ABS[k..]: add the bonus, clamp
GlobalDesde(evento, p, k) ==
    IF k > Len(ATRIBUTOS_ABS) THEN p
    ELSE GlobalDesde(evento,
                     asegurar_no_negativo(Sumar(p, ATRIBUTOS_ABS[k], evento.bonus_exito),
                                          ATRIBUTOS_ABS[k]),
                     k + 1)

\* a plausible slip: the bonus is applied whatever the outcome
aplicar_consecuencias_global_siempre(evento, p, resultado) ==
    IF resultado = None THEN p
    ELSE recalcular_suma_total(GlobalDesde(evento, p, 1))

\* EventoEquipoGlobal.aplicar_consecuencias
aplicar_consecuencias_global(evento, p, resultado) ==
    IF resultado = None \/ resultado # "EXITO" THEN p
    ELSE recalcular_suma_total(GlobalDesde(evento, p, 1))

(***************************************************************************)
(* gestor_caracteristicas.py: EventoCaracteristica                         *)
(***************************************************************************)
\* the record built by aplicar_consecuencias
Registro(evento, ts) ==
    [fuerza |-> evento.fuerza, es_bendicion |-> evento.es_bendicion,
     efecto |-> evento.efecto, evento_id |-> evento.id, timestamp |-> ts,
     contador |-> 0]

\* the synthesized record that preserves a legacy counter
\* (efecto is "caracteristicas_antiguas_<contador>")
RegistroHistorico(contador) ==
    [fuerza |-> "Historico", es_bendicion |-> FALSE,
     efecto |-> "caracteristicas_antiguas", evento_id |-> "legacy", timestamp |-> 0,
     contador |-> contador]

\* a plausible slip: every shape other than a list is replaced by the new record alone
NormalizarReservadoSinHistorico(valor, registro) ==
    IF valor.t = "list" THEN Reservado("list", Append(valor.lista, registro), 0)
    ELSE Reservado("list", <<registro>>, 0)

\* the normalisation of RESERVADO1 and the append of the new record
NormalizarReservado(valor, registro) ==
    LET valor_actual == IF valor.t = "falta" THEN ReservadoNone ELSE valor
    IN IF valor_actual.t = "None" THEN Reservado("list", <<registro>>, 0)
       ELSE IF valor_actual.t = "list"
            THEN Reservado("list", Append(valor_actual.lista, registro), 0)
       ELSE IF valor_actual.t = "int"
            THEN LET contador == valor_actual.n
                     base == IF contador > 0 THEN <<RegistroHistorico(contador)>> ELSE <<>>
                 IN Reservado("list", Append(base, registro), 0)
       ELSE Reservado("list", <<registro>>, 0)

\* a plausible slip: the new record is put at the head of an existing list
aplicar_consecuencias_caracteristica_cabeza(evento, p, ts) ==
    IF p.reservado1.t = "list"
    THEN [p EXCEPT !.reservado1 =
              Reservado("list", <<Registro(evento, ts)>> \o p.reservado1.lista, 0)]
    ELSE [p EXCEPT !.reservado1 = NormalizarReservado(p.reservado1, Registro(evento, ts))]

\* EventoCaracteristica.aplicar_consecuencias: ts is datetime.now().timestamp()
aplicar_consecuencias_caracteristica(evento, p, ts) ==
    [p EXCEPT !.reservado1 = NormalizarReservado(p.reservado1, Registro(evento, ts))]

(***************************************************************************)
(* gestor_probabilidades_personaje.py: CalculadorProbabilidades            *)
(***************************************************************************)
Categorias == {"combate", "magia", "exploracion", "social", "mistico"}

\* CalculadorProbabilidades.PESOS_BASE
PESOS_BASE == [c \in Categorias |-> 20]

\* the class catalog (clases.json) used by the model: class name -> class key,
\* the key already split at "_" into its governing attributes
ClasesJson ==
    [Guerrero |-> <<"F">>, Mago |-> <<"M">>, Paladin |-> <<"F", "E">>, Bardo |-> <<"E", "C">>]

\* the contribution of one governing attribute to the modifier of category cat
ModAtributo(attr, cat) ==
    IF attr \in {"F", "RF"} THEN (IF cat = "combate" THEN 3 ELSE 0)
    ELSE IF attr \in {"RM", "M"} THEN (IF cat = "magia" THEN 3 ELSE 0)
    ELSE IF attr \in {"A", "I"} THEN (IF cat = "exploracion" THEN 3 ELSE 0)
    ELSE IF attr = "E" THEN (IF cat = "mistico" THEN 2 ELSE IF cat = "social" THEN 1 ELSE 0)
    ELSE IF attr = "C" THEN (IF cat = "social" THEN 3 ELSE 0)
    ELSE 0

RECURSIVE SumaMod(_, _, _)
SumaMod(atributos, cat, k) ==
    IF k = 0 THEN 0 ELSE ModAtributo(atributos[k], cat) + SumaMod(atributos, cat, k - 1)

\* key.split("_") for the keys of one or two parts: the eight attributes,
\* their ordered pairs, and a name that is no attribute
Claves ==
    [F |-> <<"F">>, RF |-> <<"RF">>, RM |-> <<"RM">>, A |-> <<"A">>, I |-> <<"I">>,
     M |-> <<"M">>, E |-> <<"E">>, C |-> <<"C">>, F_F |-> <<"F", "F">>, F_RF |-> <<"F", "RF">>,
     F_RM |-> <<"F", "RM">>, F_A |-> <<"F", "A">>, F_I |-> <<"F", "I">>, F_M |-> <<"F", "M">>,
     F_E |-> <<"F", "E">>, F_C |-> <<"F", "C">>, RF_F |-> <<"RF", "F">>,
     RF_RF |-> <<"RF", "RF">>, RF_RM |-> <<"RF", "RM">>, RF_A |-> <<"RF", "A">>,
     RF_I |-> <<"RF", "I">>, RF_M |-> <<"RF", "M">>, RF_E |-> <<"RF", "E">>,
     RF_C |-> <<"RF", "C">>, RM_F |-> <<"RM", "F">>, RM_RF |-> <<"RM", "RF">>,
     RM_RM |-> <<"RM", "RM">>, RM_A |-> <<"RM", "A">>, RM_I |-> <<"RM", "I">>,
     RM_M |-> <<"RM", "M">>, RM_E |-> <<"RM", "E">>, RM_C |-> <<"RM", "C">>,
     A_F |-> <<"A", "F">>, A_RF |-> <<"A", "RF">>, A_RM |-> <<"A", "RM">>, A_A |-> <<"A", "A">>,
     A_I |-> <<"A", "I">>, A_M |-> <<"A", "M">>, A_E |-> <<"A", "E">>, A_C |-> <<"A", "C">>,
     I_F |-> <<"I", "F">>, I_RF |-> <<"I", "RF">>, I_RM |-> <<"I", "RM">>, I_A |-> <<"I", "A">>,
     I_I |-> <<"I", "I">>, I_M |-> <<"I", "M">>, I_E |-> <<"I", "E">>, I_C |-> <<"I", "C">>,
     M_F |-> <<"M", "F">>, M_RF |-> <<"M", "RF">>, M_RM |-> <<"M", "RM">>, M_A |-> <<"M", "A">>,
     M_I |-> <<"M", "I">>, M_M |-> <<"M", "M">>, M_E |-> <<"M", "E">>, M_C |-> <<"M", "C">>,
     E_F |-> <<"E", "F">>, E_RF |-> <<"E", "RF">>, E_RM |-> <<"E", "RM">>, E_A |-> <<"E", "A">>,
     E_I |-> <<"E", "I">>, E_M |-> <<"E", "M">>, E_E |-> <<"E", "E">>, E_C |-> <<"E", "C">>,
     C_F |-> <<"C", "F">>, C_RF |-> <<"C", "RF">>, C_RM |-> <<"C", "RM">>, C_A |-> <<"C", "A">>,
     C_I |-> <<"C", "I">>, C_M |-> <<"C", "M">>, C_E |-> <<"C", "E">>, C_C |-> <<"C", "C">>,
     X |-> <<"X">>, F_X |-> <<"F", "X">>]

\* a plausible slip: the two-attribute sum is not halved
agregar_modificador_clase_sin_promedio(atributos) ==
    [cat \in Categorias |-> SumaMod(atributos, cat, Len(atributos))]

\* _agregar_modificador_clase: the modifier built from a class key
agregar_modificador_clase(atributos) ==
    [cat \in Categorias |->
        IF Len(atributos) = 2
        THEN SumaMod(atributos, cat, Len(atributos)) \div 2
        ELSE SumaMod(atributos, cat, Len(atributos))]

\* cargar_modificadores_clase when clases.json is read: MOD_CLASE by class name
ModClaseJson == [nombre \in DOMAIN ClasesJson |-> agregar_modificador_clase(ClasesJson[nombre])]

\* a plausible slip: the default table penalises the opposite category by the
\* whole base weight
ModClaseDefectoPenaBase ==
    [Guerrero |-> [combate |-> 5, magia |-> -20, exploracion |-> 0, social |-> -2, mistico |-> -1],
     Mago |-> [combate |-> -20, magia |-> 5, exploracion |-> 0, social |-> -2, mistico |-> -1],
     Explorador |-> [combate |-> 0, magia |-> -2, exploracion |-> 5, social |-> -2, mistico |-> -1]]

\* _cargar_modificadores_por_defecto
ModClaseDefecto ==
    [Guerrero |-> [combate |-> 5, magia |-> -2, exploracion |-> 0, social |-> -2, mistico |-> -1],
     Mago |-> [combate |-> -2, magia |-> 5, exploracion |-> 0, social |-> -2, mistico |-> -1],
     Explorador |-> [combate |-> 0, magia |-> -2, exploracion |-> 5, social |-> -2, mistico |-> -1]]

\* the table in use: tabla is "json" when clases.json was read, "defecto" otherwise
MOD_CLASE(tabla) == IF tabla = "json" THEN ModClaseJson ELSE ModClaseDefecto

\* a plausible slip: the bonus is counted from 40 instead of 50
BonoAtributoDesde40(valor, divisor) == Max0((valor - 40) \div divisor)

\* max(0, (valor - 50) // divisor)
BonoAtributo(valor, divisor) == Max0((valor - 50) \div divisor)

\* a plausible slip: E counts for social only
aplicar_modificadores_atributos_sin_mistico(p, pesos) ==
    [pesos EXCEPT
        !["combate"] = @ + BonoAtributo(p.abs["F"], 10) + BonoAtributo(p.abs["RF"], 10),
        !["magia"] = @ + BonoAtributo(p.abs["RM"], 10) + BonoAtributo(p.abs["M"], 10),
        !["exploracion"] = @ + BonoAtributo(p.abs["A"], 10) + BonoAtributo(p.abs["I"], 10),
        !["social"] = @ + BonoAtributo(p.abs["E"], 10) + BonoAtributo(p.abs["C"], 10)]

\* _aplicar_modificadores_atributos
aplicar_modificadores_atributos(p, pesos) ==
    [pesos EXCEPT
        !["combate"] = @ + BonoAtributo(p.abs["F"], 10) + BonoAtributo(p.abs["RF"], 10),
        !["magia"] = @ + BonoAtributo(p.abs["RM"], 10) + BonoAtributo(p.abs["M"], 10),
        !["exploracion"] = @ + BonoAtributo(p.abs["A"], 10) + BonoAtributo(p.abs["I"], 10),
        !["social"] = @ + BonoAtributo(p.abs["E"], 10) + BonoAtributo(p.abs["C"], 10),
        !["mistico"] = @ + BonoAtributo(p.abs["E"], 15)]

\* _aplicar_modificadores_clase
aplicar_modificadores_clase(p, pesos, tabla) ==
    IF p.clase \in DOMAIN MOD_CLASE(tabla)
    THEN [cat \in Categorias |-> pesos[cat] + MOD_CLASE(tabla)[p.clase][cat]]
    ELSE pesos

\* the weights before normalisation
PesosSinNormalizar(p, tabla) ==
    aplicar_modificadores_clase(p, aplicar_modificadores_atributos(p, PESOS_BASE), tabla)

\* the sum of the five weights
TotalPesos(pesos) ==
    pesos["combate"] + pesos["magia"] + pesos["exploracion"] + pesos["social"] + pesos["mistico"]

\* a weight as the exact fraction num/den
Frac(num, den) == [num |-> num, den |-> den]

\* a plausible slip: the division is made whatever the total
normalizar_sin_guarda(pesos) ==
    [cat \in Categorias |-> Frac(pesos[cat] * 100, TotalPesos(pesos))]

\* _normalizar: (v / total) * 100 for each category, PESOS_BASE when total <= 0
normalizar(pesos) ==
    LET total == TotalPesos(pesos)
    IN IF total <= 0 THEN [cat \in Categorias |-> Frac(PESOS_BASE[cat], 1)]
       ELSE [cat \in Categorias |-> Frac(pesos[cat] * 100, total)]

\* calcular_pesos
calcular_pesos(p, tabla) == normalizar(PesosSinNormalizar(p, tabla))

\* seleccionar_categoria: random.choices draws a category of positive weight
seleccionar_categoria(pesos) == {cat \in Categorias : pesos[cat].num > 0}

(***************************************************************************)
(* lectorv4.py: the records the generator produces (25 fields)             *)
(***************************************************************************)
Generado(codigo, raza, clase, clave, val, abs, tipo) ==
    [codigo |-> codigo, raza |-> raza, subraza |-> "Nevado", myb |-> "Ninguna",
     variante |-> "Sin marca", clase |-> clase, clave_clase |-> clave,
     val |-> val, abs |-> abs, suma |-> SumaAtributos(abs), tipo |-> tipo]

Todos(v) == [a \in Atributos |-> v]

\* generator records used by the model: a baseline character whose class has no
\* modifier entry, a strong one, and one with very low and negative attributes
Plantillas ==
    { Generado("1111", "Humano", "Aldeano", "key", Todos(5), Todos(50), "Normal"),
      Generado("2111", "Elfo", "Guerrero", "F",
               [Todos(5) EXCEPT !["F"] = 8, !["RF"] = 6],
               [Todos(50) EXCEPT !["F"] = 80, !["RF"] = 60], "Normal"),
      Generado("3111", "Enano", "Mago", "M",
               [Todos(1) EXCEPT !["I"] = 5, !["E"] = 5, !["C"] = 5],
               [F |-> 2, RM |-> 1, RF |-> -5, A |-> 0, I |-> 50, M |-> 4, E |-> 50, C |-> 50],
               "Normal") }

\* the sequences of length 1..n over the set S
SecuenciasHasta(S, n) == UNION {[1..k -> S] : k \in 1..n}

(***************************************************************************)
(* gestor_personajes.py: GestorPersonajes                                  *)
(***************************************************************************)
\* a plausible slip: the first extension slot starts as the counter 0 of the
\* earlier version
PrepararConContador(g) ==
    [codigo |-> g.codigo, raza |-> g.raza, subraza |-> g.subraza, myb |-> g.myb,
     variante |-> g.variante, clase |-> g.clase, clave_clase |-> g.clave_clase,
     val |-> g.val, abs |-> g.abs, suma |-> g.suma, tipo |-> g.tipo,
     eventos_vida |-> 0, victorias |-> 0, derrotas |-> 0, vivo |-> TRUE,
     reservado1 |-> Reservado("int", <<>>, 0), reservado2 |-> None]

\* cargar_desde_generador: the record followed by the six simulation fields
Preparar(g) ==
    [codigo |-> g.codigo, raza |-> g.raza, subraza |-> g.subraza, myb |-> g.myb,
     variante |-> g.variante, clase |-> g.clase, clave_clase |-> g.clave_clase,
     val |-> g.val, abs |-> g.abs, suma |-> g.suma, tipo |-> g.tipo,
     eventos_vida |-> 0, victorias |-> 0, derrotas |-> 0, vivo |-> TRUE,
     reservado1 |-> ReservadoNone, reservado2 |-> None]

\* obtener_vivos: the positions of the living characters, in roster order
obtener_vivos(pjs) == SelectSeq([k \in 1..Len(pjs) |-> k], LAMBDA k : pjs[k].vivo)

\* a plausible slip: the character is listed as dead but its flag is left set
marcar_como_muerto_sin_bandera(p) == p

\* marcar_como_muerto, the record: nothing when it is already dead
marcar_como_muerto(p) == IF ~p.vivo THEN p ELSE [p EXCEPT !.vivo = FALSE]

\* marcar_como_muerto, the dead-roster: the character at position k is appended once
MuertosTrasMarcar(muertos, k, p) == IF ~p.vivo THEN muertos ELSE Append(muertos, k)

\* marcar_como_muerto, the value returned: False when it was already dead
marcar_como_muerto_retorno(p) == p.vivo

\* obtener_muertos: the dead-roster as it stands
obtener_muertos(muertos) == muertos

\* a plausible slip: the win or loss is counted but the event is not
registrar_evento_sin_contar(p, resultado_valor) ==
    [p EXCEPT !.victorias = IF resultado_valor > 0 THEN @ + 1 ELSE @,
              !.derrotas = IF resultado_valor < 0 THEN @ + 1 ELSE @]

\* registrar_evento
registrar_evento(p, resultado_valor) ==
    [p EXCEPT !.eventos_vida = @ + 1,
              !.victorias = IF resultado_valor > 0 THEN @ + 1 ELSE @,
              !.derrotas = IF resultado_valor < 0 THEN @ + 1 ELSE @]

(***************************************************************************)
(* State                                                                   *)
(***************************************************************************)
VARIABLES
    conteo,                 \* the count each event file load returned
    config,                 \* ConfiguracionSimulacion: eventos_por_personaje, prob_muerte (percent)
    eventos,                \* the three catalogs: equipo, atributo, caracteristica
    tabla,                  \* which class-modifier table the calculator holds
    prob_muerte_evento,     \* EventoAtributo.prob_muerte of each Attribute-Check event object
    personajes_originales,  \* GestorPersonajes.personajes_originales
    personajes,             \* GestorPersonajes.personajes
    personajes_muertos,     \* GestorPersonajes.personajes_muertos (positions in personajes)
    eventos_ocurridos,      \* SimuladorAventuras.eventos_ocurridos, the event log
    personajes_vivos,       \* simular_individual: the list it iterates over
    idx_pj,                 \* simular_individual: position in personajes_vivos
    i,                      \* simular_individual: the index of the inner loop
    reloj,                  \* the wall clock read by datetime.now()
    ultima,                 \* what the last executed operation did
    gemelo,                 \* a second run of the same simulation, with its own clock
    pc                      \* where the program is

vars == <<config, eventos, tabla, prob_muerte_evento, personajes_originales, personajes,
          personajes_muertos, eventos_ocurridos, personajes_vivos, idx_pj, i, reloj,
          ultima, gemelo, conteo, pc>>

\* the values random.random() takes, in percent
Azar == {(k * 100) \div ResProb : k \in 0..(ResProb - 1)}

\* the probabilities a run can be configured with, in percent
Probabilidades == {(k * 100) \div ResProb : k \in 0..ResProb}

\* the d100 values drawn in the simulation loop
DadosSim == {d \in 1..D100 : d = 1 \/ d = D100 \/ d % PasoDado = 0}

\* no event: what obtener_evento_aleatorio returns on an empty catalog
NoEvento == Evento(None, None, None, None, None, 0, 0, 0, 0, "", FALSE, "")

\* no weights before normalisation
SinCrudos == [cat \in Categorias |-> 0]

\* the record of the last operation; crudos holds the weights _normalizar was given
Ultima(op, pj, categoria, fallback, evento, resultado, tirada, murio, antes, pesos) ==
    [op |-> op, pj |-> pj, categoria |-> categoria, fallback |-> fallback,
     evento |-> evento, resultado |-> resultado, tirada |-> tirada, murio |-> murio,
     antes |-> antes, pesos |-> pesos, crudos |-> SinCrudos]

SinPesos == [cat \in Categorias |-> Frac(0, 1)]

\* a record of the shape of a character, standing for "no character"
SinPersonaje == Preparar(Generado(None, None, None, None, Todos(0), Todos(0), None))

UltimaNada ==
    Ultima("nada", 0, None, FALSE, NoEvento, None, SinTirada, FALSE, SinPersonaje, SinPesos)

\* the state of one run: the roster, the dead-roster, the log, the death
\* probability held by each Attribute-Check event object, and the clock
Corrida(pjs, muertos, log, probs, t) ==
    [personajes |-> pjs, personajes_muertos |-> muertos, eventos_ocurridos |-> log,
     prob_muerte_evento |-> probs, reloj |-> t]

\* the counts reported by the loads of the three event files
SinConteo == [equipo |-> 0, atributo |-> 0, caracteristica |-> 0]

\* no second run
SinGemelo == Corrida(<<>>, <<>>, <<>>, <<>>, 0)

(***************************************************************************)
(* Construction and loading                                                *)
(***************************************************************************)
\* SimuladorAventuras.__init__ with a configuration; the calculator reads
\* clases.json or, when that fails, takes the default table
Init ==
    /\ config \in [eventos_por_personaje : 1..MaxEventos, prob_muerte : Probabilidades]
    /\ tabla \in {"json", "defecto"}
    /\ eventos = [equipo |-> {}, atributo |-> {}, caracteristica |-> {}]
    /\ prob_muerte_evento = [id \in {} |-> 0]
    /\ personajes_originales = <<>>
    /\ personajes = <<>>
    /\ personajes_muertos = <<>>
    /\ eventos_ocurridos = <<>>
    /\ personajes_vivos = <<>>
    /\ idx_pj = 0
    /\ i = 0
    /\ reloj = 0
    /\ ultima = UltimaNada
    /\ gemelo = SinGemelo
    /\ conteo = SinConteo
    /\ pc = "construido"

\* the state of an event file: intact, missing, not JSON, or with a definition
\* at position en whose processing raises
Archivo(falla, en) == [falla |-> falla, en |-> en]

Archivos(datos) ==
    {Archivo("no", 0), Archivo("falta", 0), Archivo("ilegible", 0)}
    \cup {Archivo("definicion", k) : k \in 1..Len(datos)}

\* GestorEventosBase.cargar_desde_json, the catalog: _procesar_json appends the
\* events one by one, so the ones before a definition that raises stay
cargar_desde_json(datos, archivo) ==
    IF archivo.falla = "no" THEN Rango(datos)
    ELSE IF archivo.falla = "definicion" THEN {datos[k] : k \in 1..(archivo.en - 1)}
    ELSE {}

\* GestorEventosBase.cargar_desde_json, the value returned: len(self.eventos),
\* or 0 when the file is missing or anything raised
cargar_desde_json_retorno(datos, archivo) ==
    IF archivo.falla = "no" THEN Len(datos) ELSE 0

\* SimuladorAventuras.cargar_eventos; main stops when it reports no event
CargarEventos ==
    /\ pc = "construido"
    /\ \E aE \in Archivos(DatosEquipo), aA \in Archivos(DatosAtributo),
          aC \in Archivos(DatosCaracteristica) :
          LET cargados == [equipo |-> cargar_desde_json(DatosEquipo, aE),
                           atributo |-> cargar_desde_json(DatosAtributo, aA),
                           caracteristica |-> cargar_desde_json(DatosCaracteristica, aC)]
              count == [equipo |-> cargar_desde_json_retorno(DatosEquipo, aE),
                        atributo |-> cargar_desde_json_retorno(DatosAtributo, aA),
                        caracteristica |-> cargar_desde_json_retorno(DatosCaracteristica, aC)]
              total_cargados == count.equipo + count.atributo + count.caracteristica
          IN /\ eventos' = cargados
             /\ conteo' = count
             /\ prob_muerte_evento' = [id \in {e.id : e \in cargados.atributo} |-> PROB_MUERTE_DEFECTO]
             /\ pc' = IF total_cargados > 0 THEN "eventos" ELSE "abortado"
    /\ UNCHANGED <<gemelo, config, tabla, personajes_originales, personajes, personajes_muertos,
                   eventos_ocurridos, personajes_vivos, idx_pj, i, reloj, ultima>>

\* GestorPersonajes.cargar_desde_generador on the generator's records
CargarPersonajes ==
    /\ pc = "eventos"
    /\ \E generados \in SecuenciasHasta(Plantillas, MaxPersonajes) :
          /\ Len(generados) * config.eventos_por_personaje <= MaxTurnos
          /\ personajes_originales' = generados
          /\ personajes' = [k \in 1..Len(generados) |-> Preparar(generados[k])]
    /\ pc' = "cargado"
    /\ UNCHANGED <<conteo, gemelo, config, eventos, tabla, prob_muerte_evento, personajes_muertos,
                   eventos_ocurridos, personajes_vivos, idx_pj, i, reloj, ultima>>

(***************************************************************************)
(* main.py: event selection                                                *)
(***************************************************************************)
\* GestorEventosBase.obtener_evento_aleatorio: the events it can return
obtener_evento_aleatorio(evs) == IF evs = {} THEN {NoEvento} ELSE evs

\* seleccionar_tipo_evento: the three kinds all have a positive base weight
seleccionar_tipo_evento == {"equipo", "atributo", "caracteristica"}

\* obtener_evento_por_tipo
obtener_evento_por_tipo(tipo) ==
    IF tipo = "equipo" THEN obtener_evento_aleatorio(eventos.equipo)
    ELSE IF tipo = "atributo" THEN obtener_evento_aleatorio(eventos.atributo)
    ELSE obtener_evento_aleatorio(eventos.caracteristica)

\* atributos_por_categoria of _obtener_evento_atributo_por_categoria
atributos_por_categoria(categoria) ==
    IF categoria = "combate" THEN {"F", "RF"}
    ELSE IF categoria = "magia" THEN {"RM", "M"}
    ELSE IF categoria = "exploracion" THEN {"A", "I"}
    ELSE IF categoria = "social" THEN {"E", "C"}
    ELSE {"F"}

\* a plausible slip: the category does not filter the Attribute-Check events
obtener_evento_atributo_por_categoria_sin_filtro(categoria) ==
    obtener_evento_aleatorio(eventos.atributo)

\* _obtener_evento_atributo_por_categoria
obtener_evento_atributo_por_categoria(categoria) ==
    LET eventos_filtrados ==
            {e \in eventos.atributo : e.atributo_principal \in atributos_por_categoria(categoria)}
    IN IF eventos_filtrados # {} THEN eventos_filtrados
       ELSE obtener_evento_aleatorio(eventos.atributo)

\* a plausible slip: the calculator is taken as absent and the kind of event
\* is drawn from the global weights
seleccionar_evento_para_personaje_sin_calculador(p) ==
    { [categoria |-> None, evento |-> e] :
         e \in UNION {obtener_evento_por_tipo(tipo) : tipo \in seleccionar_tipo_evento} }

\* seleccionar_evento_para_personaje: the (category, event) pairs it can produce
seleccionar_evento_para_personaje(p) ==
    LET pesos == calcular_pesos(p, tabla)
    IN UNION { { [categoria |-> cat, evento |-> e] :
                    e \in IF cat = "mistico"
                          THEN obtener_evento_aleatorio(eventos.caracteristica)
                          ELSE obtener_evento_atributo_por_categoria(cat) } :
               cat \in seleccionar_categoria(pesos) }

\* the selection of one turn of simular_individual, with its fallback to the
\* global category draw when the personalised selection returns no event
SeleccionDeTurno(p) ==
    LET primera == seleccionar_evento_para_personaje(p)
    IN {[categoria |-> s.categoria, fallback |-> FALSE, evento |-> s.evento] :
            s \in {x \in primera : x.evento # NoEvento}}
       \cup UNION { { [categoria |-> s.categoria, fallback |-> TRUE, evento |-> e] :
                         e \in UNION {obtener_evento_por_tipo(tipo) : tipo \in seleccionar_tipo_evento} } :
                    s \in {x \in primera : x.evento = NoEvento} }

(***************************************************************************)
(* main.py: ejecutar_evento                                                *)
(***************************************************************************)
\* a plausible slip: the event keeps the probability it was built with
ProbMuerteSinAsignar(actual, cfg) == actual

\* ejecutar_evento: evento.prob_muerte = self.config.prob_muerte
ProbMuerteAsignada(actual, cfg) == cfg.prob_muerte

\* the dispatch of evento.aplicar_consecuencias on the class of the event
aplicar_consecuencias(evento, p, resultado, ts) ==
    IF evento.clase = "EventoAtributo" THEN aplicar_consecuencias_atributo(evento, p, resultado)
    ELSE IF evento.clase = "EventoEquipoSimple" THEN aplicar_consecuencias_simple(evento, p, resultado)
    ELSE IF evento.clase = "EventoEquipoDoble" THEN aplicar_consecuencias_doble(evento, p, resultado)
    ELSE IF evento.clase = "EventoEquipoGlobal" THEN aplicar_consecuencias_global(evento, p, resultado)
    ELSE aplicar_consecuencias_caracteristica(evento, p, ts)

\* the "antes" and "despues" snapshots of the log
Instantanea(p) == [F |-> p.abs["F"], suma |-> p.suma]

\* one call ejecutar_evento makes, with the record as the call leaves it
Paso(nombre, p) == [paso |-> nombre, personaje |-> p]

\* a plausible slip: the character is marked dead as soon as the death roll
\* says so, and the event ends there
PasosDeEjecutarRetornoTemprano(evento, p, resultado, murio, ts) ==
    LET p1 == aplicar_consecuencias(evento, p, resultado, ts)
        p2 == IF resultado # None THEN registrar_evento(p1, ResultadoEvento[resultado]) ELSE p1
    IN IF murio
       THEN <<Paso("calcular_resultado", p), Paso("probar_muerte", p),
              Paso("marcar_como_muerto", marcar_como_muerto(p))>>
       ELSE (IF evento.tipo # "caracteristica" THEN <<Paso("calcular_resultado", p)>> ELSE <<>>)
            \o (IF evento.tipo = "atributo" THEN <<Paso("probar_muerte", p)>> ELSE <<>>)
            \o <<Paso("aplicar_consecuencias", p1)>>
            \o (IF resultado # None THEN <<Paso("registrar_evento", p2)>> ELSE <<>>)

\* ejecutar_evento, the calls it makes on the character in the order of the
\* code, the outcome and the death roll being known: calcular_resultado and
\* probar_muerte read the record, aplicar_consecuencias changes it, the event
\* is counted when there is an outcome, and the death is marked last
PasosDeEjecutar(evento, p, resultado, murio, ts) ==
    LET p1 == aplicar_consecuencias(evento, p, resultado, ts)
        p2 == IF resultado # None THEN registrar_evento(p1, ResultadoEvento[resultado]) ELSE p1
        p3 == IF murio THEN marcar_como_muerto(p2) ELSE p2
    IN (IF evento.tipo # "caracteristica" THEN <<Paso("calcular_resultado", p)>> ELSE <<>>)
       \o (IF evento.tipo = "atributo" THEN <<Paso("probar_muerte", p)>> ELSE <<>>)
       \o <<Paso("aplicar_consecuencias", p1)>>
       \o (IF resultado # None THEN <<Paso("registrar_evento", p2)>> ELSE <<>>)
       \o (IF murio THEN <<Paso("marcar_como_muerto", p3)>> ELSE <<>>)

\* a plausible slip: an event without outcome is counted as one with value 0
PersonajeTrasEventoSiempreCuenta(evento, p, resultado, murio, ts) ==
    LET p1 == aplicar_consecuencias(evento, p, resultado, ts)
        p2 == registrar_evento(p1, IF resultado # None THEN ResultadoEvento[resultado] ELSE 0)
    IN IF murio THEN marcar_como_muerto(p2) ELSE p2

\* the record ejecutar_evento leaves: the consequences are applied, the event
\* is counted when there is an outcome, the death is marked
PersonajeTrasEvento(evento, p, resultado, murio, ts) ==
    LET p1 == aplicar_consecuencias(evento, p, resultado, ts)
        p2 == IF resultado # None THEN registrar_evento(p1, ResultadoEvento[resultado]) ELSE p1
    IN IF murio THEN marcar_como_muerto(p2) ELSE p2

\* the log record ejecutar_evento returns
RegistroDeEvento(evento, k, p, despues, resultado, murio) ==
    [tipo |-> evento.tipo, evento_id |-> evento.id, indice |-> k,
     resultado |-> IF resultado # None THEN resultado ELSE "contacto",
     murio |-> murio, antes |-> Instantanea(p), despues |-> Instantanea(despues)]

(***************************************************************************)
(* main.py: simular_individual                                             *)
(***************************************************************************)
\* the log is emptied and the living characters are listed
IniciarSimulacion ==
    /\ pc = "cargado"
    /\ eventos_ocurridos' = <<>>
    /\ personajes_vivos' = obtener_vivos(personajes)
    /\ idx_pj' = 1
    /\ i' = 0
    /\ pc' = "simulando"
    /\ UNCHANGED <<conteo, gemelo, config, eventos, tabla, prob_muerte_evento, personajes_originales,
                   personajes, personajes_muertos, reloj, ultima>>

\* the character of the outer loop
EnTurno == personajes_vivos[idx_pj]

\* a plausible slip: the alive flag is not looked at
SigueVivoSinMirar(p) == TRUE

\* the check at the head of the inner loop: personaje[VIVO]
SigueVivo(p) == p.vivo

\* a plausible slip: the inner loop does not stop at eventos_por_personaje
HayTurnoSinPresupuesto ==
    /\ pc = "simulando"
    /\ idx_pj <= Len(personajes_vivos)

\* the inner loop is at an iteration it can run for a character
HayTurno ==
    /\ pc = "simulando"
    /\ idx_pj <= Len(personajes_vivos)
    /\ i < config.eventos_por_personaje

\* the effect on the state of executing evento against the character in turn
Ejecutar(sel, resultado, tirada, murio, ts) ==
    LET k == EnTurno
        p == personajes[k]
        despues == PersonajeTrasEvento(sel.evento, p, resultado, murio, ts)
    IN /\ personajes' = [personajes EXCEPT ![k] = despues]
       /\ personajes_muertos' =
              IF murio
              THEN MuertosTrasMarcar(personajes_muertos, k,
                                     [despues EXCEPT !.vivo = p.vivo])
              ELSE personajes_muertos
       /\ eventos_ocurridos' =
              Append(eventos_ocurridos,
                     RegistroDeEvento(sel.evento, k, p, despues, resultado, murio))
       /\ ultima' = [Ultima("evento", k, sel.categoria, sel.fallback, sel.evento, resultado,
                            tirada, murio, p, calcular_pesos(p, tabla))
                        EXCEPT !.crudos = PesosSinNormalizar(p, tabla)]
       /\ i' = i + 1

\* one iteration that executes an Attribute-Check event
TurnoAtributo ==
    /\ HayTurno
    /\ SigueVivo(personajes[EnTurno])
    /\ \E sel \in SeleccionDeTurno(personajes[EnTurno]), dado \in DadosSim :
          /\ sel.evento.tipo = "atributo"
          /\ LET p == personajes[EnTurno]
                 prob == ProbMuerteAsignada(prob_muerte_evento[sel.evento.id], config)
                 resultado == calcular_resultado_atributo(sel.evento, p, dado)
             IN /\ prob_muerte_evento' = [prob_muerte_evento EXCEPT ![sel.evento.id] = prob]
                /\ \E r \in IF resultado = "FRACASO_EPICO" THEN Azar ELSE {0} :
                      Ejecutar(sel, resultado, ultima_tirada(sel.evento, p, dado),
                               probar_muerte(resultado, r, prob), reloj)
    /\ UNCHANGED <<conteo, gemelo, config, eventos, tabla, personajes_originales, personajes_vivos,
                   idx_pj, reloj, pc>>

\* one iteration that executes an Equipment event
TurnoEquipo ==
    /\ HayTurno
    /\ SigueVivo(personajes[EnTurno])
    /\ \E sel \in SeleccionDeTurno(personajes[EnTurno]), r \in Azar :
          /\ sel.evento.tipo = "equipo"
          /\ Ejecutar(sel, calcular_resultado_equipo(sel.evento, r), SinTirada, FALSE, reloj)
    /\ UNCHANGED <<conteo, gemelo, config, eventos, tabla, prob_muerte_evento, personajes_originales,
                   personajes_vivos, idx_pj, reloj, pc>>

\* one iteration that executes a Characteristic event; the clock is read once
TurnoCaracteristica ==
    /\ HayTurno
    /\ SigueVivo(personajes[EnTurno])
    /\ \E sel \in SeleccionDeTurno(personajes[EnTurno]) :
          /\ sel.evento.tipo = "caracteristica"
          /\ Ejecutar(sel, None, SinTirada, FALSE, reloj + 1)
    /\ reloj' = reloj + 1
    /\ UNCHANGED <<conteo, gemelo, config, eventos, tabla, prob_muerte_evento, personajes_originales,
                   personajes_vivos, idx_pj, pc>>

\* a plausible slip: the skipped turn is not taken from the character's budget
TurnoOmitidoSinContar ==
    /\ HayTurno
    /\ SigueVivo(personajes[EnTurno])
    /\ \E sel \in SeleccionDeTurno(personajes[EnTurno]) :
          /\ sel.evento = NoEvento
          /\ ultima' = [Ultima("omitido", EnTurno, sel.categoria, sel.fallback, NoEvento, None,
                               SinTirada, FALSE, personajes[EnTurno],
                               calcular_pesos(personajes[EnTurno], tabla))
                           EXCEPT !.crudos = PesosSinNormalizar(personajes[EnTurno], tabla)]
    /\ UNCHANGED <<conteo, gemelo, config, eventos, tabla, prob_muerte_evento, personajes_originales,
                   personajes, personajes_muertos, eventos_ocurridos, personajes_vivos,
                   idx_pj, i, reloj, pc>>

\* one iteration in which no event could be fetched: continue
TurnoOmitido ==
    /\ HayTurno
    /\ SigueVivo(personajes[EnTurno])
    /\ \E sel \in SeleccionDeTurno(personajes[EnTurno]) :
          /\ sel.evento = NoEvento
          /\ ultima' = [Ultima("omitido", EnTurno, sel.categoria, sel.fallback, NoEvento, None,
                               SinTirada, FALSE, personajes[EnTurno],
                               calcular_pesos(personajes[EnTurno], tabla))
                           EXCEPT !.crudos = PesosSinNormalizar(personajes[EnTurno], tabla)]
    /\ i' = i + 1
    /\ UNCHANGED <<conteo, gemelo, config, eventos, tabla, prob_muerte_evento, personajes_originales,
                   personajes, personajes_muertos, eventos_ocurridos, personajes_vivos,
                   idx_pj, reloj, pc>>

\* the inner loop ends, by break on a dead character or after the last
\* iteration; the outer loop moves to the next character
SiguientePersonaje ==
    /\ pc = "simulando"
    /\ idx_pj <= Len(personajes_vivos)
    /\ \/ i >= config.eventos_por_personaje
       \/ ~SigueVivo(personajes[EnTurno])
    /\ idx_pj' = idx_pj + 1
    /\ i' = 0
    /\ UNCHANGED <<conteo, gemelo, config, eventos, tabla, prob_muerte_evento, personajes_originales,
                   personajes, personajes_muertos, eventos_ocurridos, personajes_vivos,
                   reloj, ultima, pc>>

\* the outer loop is exhausted: simular_individual returns the log
TerminarSimulacion ==
    /\ pc = "simulando"
    /\ idx_pj > Len(personajes_vivos)
    /\ pc' = "fin"
    /\ UNCHANGED <<conteo, gemelo, config, eventos, tabla, prob_muerte_evento, personajes_originales,
                   personajes, personajes_muertos, eventos_ocurridos, personajes_vivos,
                   idx_pj, i, reloj, ultima>>

Next ==
    \/ CargarEventos
    \/ CargarPersonajes
    \/ IniciarSimulacion
    \/ TurnoAtributo
    \/ TurnoEquipo
    \/ TurnoCaracteristica
    \/ TurnoOmitido
    \/ SiguientePersonaje
    \/ TerminarSimulacion

Spec == Init /\ [][Next]_vars

(***************************************************************************)
(* The same manager used again: a new roster is loaded after a run.  The   *)
(* entries of personajes_muertos are references to record objects: a       *)
(* positive entry is the position of the object in the current roster, an  *)
(* entry 0 - j is the object of an earlier roster that was appended as the *)
(* j-th death and is in no position of the current one.                    *)
(***************************************************************************)
\* what cargar_desde_generador does to the dead-roster: nothing; the objects it
\* holds stay, while self.personajes is rebuilt from new copies
MuertosTrasCargar(muertos) ==
    [j \in 1..Len(muertos) |-> IF muertos[j] > 0 THEN 0 - j ELSE muertos[j]]

\* GestorPersonajes.cargar_desde_generador called again after a run in which
\* a character died; one roster at most is loaded over the deaths of earlier
\* ones
RecargarPersonajes ==
    /\ pc = "fin"
    /\ personajes_muertos # <<>>
    /\ \A j \in 1..Len(personajes_muertos) : personajes_muertos[j] > 0
    /\ \E generados \in SecuenciasHasta(Plantillas, MaxPersonajes) :
          /\ Len(generados) * config.eventos_por_personaje <= MaxTurnos
          /\ personajes_originales' = generados
          /\ personajes' = [k \in 1..Len(generados) |-> Preparar(generados[k])]
    /\ personajes_muertos' = MuertosTrasCargar(personajes_muertos)
    /\ ultima' = [UltimaNada EXCEPT !.op = "cargar"]
    /\ pc' = "cargado"
    /\ UNCHANGED <<conteo, gemelo, config, eventos, tabla, prob_muerte_evento,
                   eventos_ocurridos, personajes_vivos, idx_pj, i, reloj>>

\* one configuration: one event per character, a critical failure always kills
InitRecarga ==
    /\ Init
    /\ tabla = "defecto"
    /\ config = [eventos_por_personaje |-> 1, prob_muerte |-> 100]

NextRecarga ==
    \/ CargarEventos
    \/ CargarPersonajes
    \/ IniciarSimulacion
    \/ TurnoAtributo
    \/ TurnoEquipo
    \/ TurnoCaracteristica
    \/ TurnoOmitido
    \/ SiguientePersonaje
    \/ TerminarSimulacion
    \/ RecargarPersonajes

SpecRecarga == InitRecarga /\ [][NextRecarga]_vars

\* simular_individual runs on its own, without waiting for input: as long as it
\* has not returned, its next statement is eventually executed
\* the runs with the default modifier table and a death probability strictly
\* between 0 and 1, for which a critical failure may or may not kill
InitJusto ==
    /\ Init
    /\ tabla = "defecto"
    /\ config.prob_muerte \in {q \in Probabilidades : 0 < q /\ q < 100}

\* the statement being executed: the program counter and the two loop indexes
control == <<pc, idx_pj, i>>

\* the interpreter executes the next statement of a program that has not
\* returned: control moves on
Avanza ==
    /\ pc \notin {"fin", "abortado"}
    /\ pc' \in {"eventos", "abortado", "cargado", "simulando", "fin"}
    /\ idx_pj' \in {idx_pj, idx_pj + 1, 1}
    /\ i' \in {i + 1, 0}
    /\ control' # control

SpecJusto == InitJusto /\ [][Next]_vars /\ WF_control(Avanza)

(***************************************************************************)
(* Direct calls of the event and calculator methods on one record, as the  *)
(* quick tests at the end of the modules make them                         *)
(***************************************************************************)
\* generator records with attribute values around and beyond the thresholds
PlantillasDirecto ==
    Plantillas \cup
    { Generado("4111", "Gigante", "Paladin", "F_E", Todos(9),
               [Todos(120) EXCEPT !["F"] = 301, !["RF"] = 203, !["E"] = 95], "Heroe Legendario"),
      Generado("5111", "Mediano", "Explorador", "A", Todos(1),
               [Todos(-20) EXCEPT !["F"] = -7, !["M"] = 59, !["A"] = 71], "Aberrante") }

\* a record left in RESERVADO1 by an earlier Characteristic event
RegistroPrevio == Registro(EventoCaracteristica("C0", "Bendicion Angelical", TRUE, "luz"), 0)

\* the shapes RESERVADO1 can have before a direct call
FormasReservado ==
    { Reservado("falta", <<>>, 0), ReservadoNone, Reservado("otro", <<>>, 0),
      Reservado("list", <<>>, 0), Reservado("list", <<RegistroPrevio>>, 0) }
    \cup { Reservado("int", <<>>, n) : n \in (0 - MaxLegacy)..MaxLegacy }

\* the events called directly: those of the catalogs and some with other deltas
EventosDirecto ==
    Rango(DatosAtributo) \cup Rango(DatosEquipo) \cup Rango(DatosCaracteristica) \cup
    { EventoEquipoGlobal("E4", -3, 80),
      EventoAtributo("A3", "F", "F"),
      EventoAtributo("A4", "X", "C"),
      EventoEquipoSimple("E5", "M", -9, 3, 60),
      EventoEquipoDoble("E6", "F", "F", 2, -9, 50) }

InitDirecto ==
    /\ config = [eventos_por_personaje |-> 1, prob_muerte |-> 0]
    /\ tabla \in {"json", "defecto"}
    /\ eventos = [equipo |-> {}, atributo |-> {}, caracteristica |-> {}]
    /\ prob_muerte_evento = [id \in {} |-> 0]
    /\ \E g \in PlantillasDirecto, forma \in FormasReservado :
          /\ personajes_originales = <<g>>
          /\ personajes = <<[Preparar(g) EXCEPT !.reservado1 = forma]>>
    /\ personajes_muertos = <<>>
    /\ eventos_ocurridos = <<>>
    /\ personajes_vivos = <<>>
    /\ idx_pj = 0
    /\ i = 0
    /\ reloj = 0
    /\ ultima = UltimaNada
    /\ gemelo = SinGemelo
    /\ conteo = SinConteo
    /\ pc = "directo"

\* evento.calcular_resultado(personaje) of an Attribute-Check event on the
\* record as drawn, for every value of the die; the test ends with it
DirectoCalcular ==
    /\ pc = "directo"
    /\ i = 0
    /\ \E evento \in {e \in EventosDirecto : e.tipo = "atributo"}, dado \in 1..D100 :
          ultima' = Ultima("calcular", 1, None, FALSE, evento,
                           calcular_resultado_atributo(evento, personajes[1], dado),
                           ultima_tirada(evento, personajes[1], dado), FALSE,
                           personajes[1], SinPesos)
    /\ pc' = "probado"
    /\ UNCHANGED <<conteo, gemelo, config, eventos, tabla, prob_muerte_evento, personajes_originales,
                   personajes, personajes_muertos, eventos_ocurridos, personajes_vivos,
                   idx_pj, i, reloj>>

\* evento.calcular_resultado(personaje) of an Equipment event, for every value
\* of random.random(); the test ends with it
DirectoResolver ==
    /\ pc = "directo"
    /\ i = 0
    /\ \E evento \in {e \in EventosDirecto : e.tipo = "equipo"}, r \in Azar :
          ultima' = Ultima("resolver", 1, None, FALSE, evento,
                           calcular_resultado_equipo(evento, r), SinTirada, FALSE,
                           personajes[1], SinPesos)
    /\ pc' = "probado"
    /\ UNCHANGED <<conteo, gemelo, config, eventos, tabla, prob_muerte_evento, personajes_originales,
                   personajes, personajes_muertos, eventos_ocurridos, personajes_vivos,
                   idx_pj, i, reloj>>

\* calculador.calcular_pesos(personaje) on the record as drawn; the test ends with it
DirectoPesos ==
    /\ pc = "directo"
    /\ i = 0
    /\ ultima' = [Ultima("pesos", 1, None, FALSE, NoEvento, None, SinTirada, FALSE,
                         personajes[1], calcular_pesos(personajes[1], tabla))
                     EXCEPT !.crudos = PesosSinNormalizar(personajes[1], tabla)]
    /\ pc' = "probado"
    /\ UNCHANGED <<conteo, gemelo, config, eventos, tabla, prob_muerte_evento, personajes_originales,
                   personajes, personajes_muertos, eventos_ocurridos, personajes_vivos,
                   idx_pj, i, reloj>>

\* the weight dictionaries _normalizar is called with directly: totals above,
\* at and below 0
PesosDirecto == [Categorias -> {-20, 0, 25}]

\* calculador._normalizar(pesos) on a dictionary of weights; the test ends with it
DirectoNormalizar ==
    /\ pc = "directo"
    /\ i = 0
    /\ \E pesos \in PesosDirecto :
          ultima' = [Ultima("normalizar", 1, None, FALSE, NoEvento, None, SinTirada, FALSE,
                            personajes[1], normalizar(pesos))
                        EXCEPT !.crudos = pesos]
    /\ pc' = "probado"
    /\ UNCHANGED <<conteo, gemelo, config, eventos, tabla, prob_muerte_evento, personajes_originales,
                   personajes, personajes_muertos, eventos_ocurridos, personajes_vivos,
                   idx_pj, i, reloj>>

\* calculador._agregar_modificador_clase(nombre, key) on any key; the test ends
\* with it.  categoria holds the key, crudos the modifier stored for the class
DirectoClase ==
    /\ pc = "directo"
    /\ i = 0
    /\ \E key \in DOMAIN Claves :
          ultima' = [Ultima("clase", 1, key, FALSE, NoEvento, None, SinTirada, FALSE,
                            personajes[1], SinPesos)
                        EXCEPT !.crudos = agregar_modificador_clase(Claves[key])]
    /\ pc' = "probado"
    /\ UNCHANGED <<conteo, gemelo, config, eventos, tabla, prob_muerte_evento, personajes_originales,
                   personajes, personajes_muertos, eventos_ocurridos, personajes_vivos,
                   idx_pj, i, reloj>>

\* evento.aplicar_consecuencias(personaje, resultado) with any outcome, None included
DirectoAplicar ==
    /\ pc = "directo"
    /\ i < MaxDirecto
    /\ \E evento \in EventosDirecto, resultado \in Resultados \cup {None} :
          LET ts == IF evento.tipo = "caracteristica" THEN reloj + 1 ELSE reloj
          IN /\ personajes' = <<aplicar_consecuencias(evento, personajes[1], resultado, ts)>>
             /\ reloj' = ts
             /\ ultima' = Ultima("aplicar", 1, None, FALSE, evento, resultado, SinTirada,
                                 FALSE, personajes[1], SinPesos)
    /\ i' = i + 1
    /\ UNCHANGED <<conteo, gemelo, config, eventos, tabla, prob_muerte_evento, personajes_originales,
                   personajes_muertos, eventos_ocurridos, personajes_vivos, idx_pj, pc>>

NextDirecto ==
    \/ DirectoCalcular
    \/ DirectoResolver
    \/ DirectoPesos
    \/ DirectoNormalizar
    \/ DirectoClase
    \/ DirectoAplicar

SpecDirecto == InitDirecto /\ [][NextDirecto]_vars

(***************************************************************************)
(* Two runs of simular_individual side by side: the same loaded roster,    *)
(* catalogs and configuration and the same random draws.  What the runs do *)
(* not share is what the program reads from outside them: the wall clock,  *)
(* and the death probability an event object was left with by earlier use. *)
(***************************************************************************)
\* the run held in the program variables
CorridaActual ==
    Corrida(personajes, personajes_muertos, eventos_ocurridos, prob_muerte_evento, reloj)

\* ejecutar_evento and the append to the log, as a function of the run state c:
\* the character at position k meets evento, dado is the value of
\* random.randint(1, 100) and r the value of random.random()
EjecutarEn(c, k, evento, dado, r) ==
    LET p == c.personajes[k]
        esAtributo == evento.tipo = "atributo"
        prob == IF esAtributo
                THEN ProbMuerteAsignada(c.prob_muerte_evento[evento.id], config)
                ELSE 0
        resultado == IF evento.tipo = "caracteristica" THEN None
                     ELSE IF esAtributo THEN calcular_resultado_atributo(evento, p, dado)
                     ELSE calcular_resultado_equipo(evento, r)
        murio == esAtributo /\ probar_muerte(resultado, r, prob)
        ts == IF evento.tipo = "caracteristica" THEN c.reloj + 1 ELSE c.reloj
        despues == PersonajeTrasEvento(evento, p, resultado, murio, ts)
    IN Corrida([c.personajes EXCEPT ![k] = despues],
               IF murio
               THEN MuertosTrasMarcar(c.personajes_muertos, k, [despues EXCEPT !.vivo = p.vivo])
               ELSE c.personajes_muertos,
               Append(c.eventos_ocurridos,
                      RegistroDeEvento(evento, k, p, despues, resultado, murio)),
               IF esAtributo
               THEN [c.prob_muerte_evento EXCEPT ![evento.id] = prob]
               ELSE c.prob_muerte_evento,
               ts)

\* both runs start simular_individual on the loaded roster; the second one
\* reads a later clock (every reading differs from the first run's) and finds in the event objects any probability an
\* earlier run may have left there
GemeloIniciar ==
    /\ pc = "cargado"
    /\ eventos_ocurridos' = <<>>
    /\ personajes_vivos' = obtener_vivos(personajes)
    /\ idx_pj' = 1
    /\ i' = 0
    /\ pc' = "simulando"
    /\ \E q \in Probabilidades :
          gemelo' = Corrida(personajes, personajes_muertos, <<>>,
                            [id \in DOMAIN prob_muerte_evento |-> q], reloj + 1)
    /\ UNCHANGED <<conteo, config, eventos, tabla, prob_muerte_evento, personajes_originales,
                   personajes, personajes_muertos, reloj, ultima>>

\* the pick of the second run: the same draw among the same candidates gives
\* the same pick
MismoSorteo(sel, candidatosA, candidatosB) ==
    IF candidatosB = candidatosA THEN {sel} ELSE candidatosB

\* one iteration of the inner loop in both runs, with the same draws: the same
\* pick among the same candidates, the same die and the same random.random()
GemeloTurno ==
    /\ HayTurno
    /\ SigueVivo(personajes[EnTurno])
    /\ SigueVivo(gemelo.personajes[EnTurno])
    /\ LET candidatosA == SeleccionDeTurno(personajes[EnTurno])
           candidatosB == SeleccionDeTurno(gemelo.personajes[EnTurno])
       IN \E sel \in candidatosA :
             /\ sel.evento # NoEvento
             /\ \E selB \in MismoSorteo(sel, candidatosA, candidatosB),
                   dado \in (IF sel.evento.tipo = "atributo" THEN DadosSim ELSE {1}),
                   r \in (IF sel.evento.tipo = "caracteristica" THEN {0} ELSE Azar) :
                   /\ selB.evento # NoEvento
                   /\ LET a == EjecutarEn(CorridaActual, EnTurno, sel.evento, dado, r)
                      IN /\ personajes' = a.personajes
                         /\ personajes_muertos' = a.personajes_muertos
                         /\ eventos_ocurridos' = a.eventos_ocurridos
                         /\ prob_muerte_evento' = a.prob_muerte_evento
                         /\ reloj' = a.reloj
                   /\ gemelo' = EjecutarEn(gemelo, EnTurno, selB.evento, dado, r)
    /\ i' = i + 1
    /\ UNCHANGED <<conteo, config, eventos, tabla, personajes_originales, personajes_vivos,
                   idx_pj, ultima, pc>>

NextGemelo ==
    \/ CargarEventos
    \/ CargarPersonajes
    \/ GemeloIniciar
    \/ GemeloTurno
    \/ TurnoOmitido
    \/ SiguientePersonaje
    \/ TerminarSimulacion

\* the two runs start from the configurations of InitJusto, in which a critical
\* failure may or may not kill
SpecGemelo == InitJusto /\ [][NextGemelo]_vars

(***************************************************************************)
(* Properties                                                              *)
(***************************************************************************)
\* the log records of the character at position k, in log order
RegistrosDe(log, k) == SelectSeq(log, LAMBDA reg : reg.indice = k)

\* the largest q with n * q <= x, for the values the model reaches
Piso(x, n) == CHOOSE q \in -400..400 : n * q <= x /\ x < n * (q + 1)

\* C1: once a character's alive flag is false no later event is resolved or
\* applied against it: the log gets no further record for it, no record of it
\* follows the record in which it died, and none of its fields changes.
C1_MuertoNoVuelveAResolver ==
    [][ /\ \A k \in 1..Len(personajes) :
              (pc = "simulando" /\ ~personajes[k].vivo)
                  => /\ personajes'[k] = personajes[k]
                     /\ RegistrosDe(eventos_ocurridos', k) = RegistrosDe(eventos_ocurridos, k)
        /\ \A a \in 1..Len(eventos_ocurridos'), b \in 1..Len(eventos_ocurridos') :
              (a < b /\ eventos_ocurridos'[a].indice = eventos_ocurridos'[b].indice)
                  => ~eventos_ocurridos'[a].murio ]_vars

\* C1 witness: the run ended with a character that died before its budget of
\* events was used
C1_Testigo ==
    /\ pc = "fin"
    /\ \E k \in 1..Len(personajes) :
          /\ ~personajes[k].vivo
          /\ Len(RegistrosDe(eventos_ocurridos, k)) < config.eventos_por_personaje

\* C2: at every point of a run the stored total of every character is the sum
\* of its eight current absolute attributes.
C2_SumaEsLaSuma ==
    \A k \in 1..Len(personajes) :
        LET a == personajes[k].abs
        IN personajes[k].suma =
               a["F"] + a["RM"] + a["RF"] + a["A"] + a["I"] + a["M"] + a["E"] + a["C"]

\* C2 witness: an executed event changed the total of a character
C2_Testigo ==
    \E j \in 1..Len(eventos_ocurridos) :
        eventos_ocurridos[j].antes.suma # eventos_ocurridos[j].despues.suma

\* C3: after aplicar_consecuencias of any event with any delta, every attribute
\* the call changed is non-negative, and so is every attribute an applied
\* Attribute-Check or successful global Equipment event targets.
C3_NuncaNegativo ==
    (ultima.op = "aplicar") =>
        LET p == personajes[1]
            e == ultima.evento
        IN /\ \A a \in Atributos : p.abs[a] # ultima.antes.abs[a] => p.abs[a] >= 0
           /\ (e.tipo = "atributo" /\ ultima.resultado # None)
                  => p.abs[obtener_indice_atributo(e.atributo_principal)] >= 0
           /\ (e.clase = "EventoEquipoGlobal" /\ ultima.resultado = "EXITO")
                  => \A a \in Atributos : p.abs[a] >= 0

\* C3 witness: a critical failure took 3 from a primary attribute below 3
C3_Testigo ==
    /\ ultima.op = "aplicar"
    /\ ultima.evento.tipo = "atributo"
    /\ ultima.resultado = "FRACASO_EPICO"
    /\ LET a == obtener_indice_atributo(ultima.evento.atributo_principal)
       IN ultima.antes.abs[a] \in 1..2 /\ personajes[1].abs[a] = 0

\* the outcome the claim gives for die d and the attribute values pri and sec
C4_Esperado(d, pri, sec, conSec) ==
    LET total == d + Piso(pri, 2) + (IF conSec THEN Piso(sec, 4) ELSE 0)
    IN CASE d = 100 -> "EXITO_EPICO"
         [] d = 1 -> "FRACASO_EPICO"
         [] d \notin {1, 100} /\ total >= 150 -> "EXITO_EPICO"
         [] d \notin {1, 100} /\ total \in 100..149 -> "EXITO"
         [] d \notin {1, 100} /\ total \in 60..99 -> "NORMAL"
         [] d \notin {1, 100} /\ total \in 30..59 -> "FRACASO"
         [] d \notin {1, 100} /\ total < 30 -> "FRACASO_EPICO"

\* C4: for every die value and attribute values, calcular_resultado gives
\* critical success on 100, critical failure on 1, and otherwise the level of
\* total = die + floor(primary/2) + floor(secondary/4) against 150/100/60/30;
\* primary 80, secondary 60, die 50 give total 105 and success.
C4_ResultadoDeLaTirada ==
    (ultima.op = "calcular") =>
        LET e == ultima.evento
            pri == ultima.antes.abs[obtener_indice_atributo(e.atributo_principal)]
            conSec == e.atributo_secundario # None
            sec == IF conSec THEN ultima.antes.abs[obtener_indice_atributo(e.atributo_secundario)]
                   ELSE 0
        IN /\ ultima.resultado = C4_Esperado(ultima.tirada.dado, pri, sec, conSec)
           /\ (pri = 80 /\ sec = 60 /\ conSec /\ ultima.tirada.dado = 50)
                  => (ultima.tirada.total = 105 /\ ultima.resultado = "EXITO")

\* C4 witness: the roll of the example, primary 80, secondary 60, die 50
C4_Testigo ==
    /\ ultima.op = "calcular"
    /\ ultima.evento.atributo_principal = "F"
    /\ ultima.evento.atributo_secundario = "RF"
    /\ ultima.antes.abs["F"] = 80
    /\ ultima.antes.abs["RF"] = 60
    /\ ultima.tirada.dado = 50
    /\ ultima.tirada.total = 105
    /\ ultima.resultado = "EXITO"

\* C5: a character dies only in an Attribute-Check event whose outcome is
\* critical failure, never in an Equipment or Characteristic event; the death
\* roll uses the configured probability, so with probability 0 nobody dies
\* (and with probability 1 every critical failure kills).
C5_SoloMuereEnFracasoEpico ==
    /\ \A j \in 1..Len(eventos_ocurridos) :
          LET reg == eventos_ocurridos[j]
          IN /\ reg.murio => /\ reg.tipo = "atributo"
                             /\ reg.resultado = "FRACASO_EPICO"
                             /\ config.prob_muerte > 0
             /\ (reg.tipo = "atributo" /\ reg.resultado = "FRACASO_EPICO"
                     /\ config.prob_muerte = 100) => reg.murio
    /\ \A k \in 1..Len(personajes) :
          ~personajes[k].vivo =>
              \E j \in 1..Len(eventos_ocurridos) :
                  eventos_ocurridos[j].indice = k /\ eventos_ocurridos[j].murio
    /\ config.prob_muerte = 0 => \A k \in 1..Len(personajes) : personajes[k].vivo

\* C5 witness: a character died of a critical failure, and another critical
\* failure of the same run did not kill
C5_Testigo ==
    /\ \E k \in 1..Len(personajes) : ~personajes[k].vivo
    /\ \E j \in 1..Len(eventos_ocurridos) :
          eventos_ocurridos[j].resultado = "FRACASO_EPICO" /\ ~eventos_ocurridos[j].murio

\* the number of log records of character k whose outcome value satisfies Signo
Cuenta(k, Signo(_)) ==
    Len(SelectSeq(RegistrosDe(eventos_ocurridos, k),
                  LAMBDA reg : reg.resultado # "contacto" /\ Signo(ResultadoEvento[reg.resultado])))

\* C6: every executed event of any of the three kinds adds exactly 1 to the
\* events-lived counter of its character, a positive outcome adds 1 to the
\* wins and a negative one 1 to the losses.
C6_TodoEventoCuenta ==
    \A k \in 1..Len(personajes) :
        /\ personajes[k].eventos_vida = Len(RegistrosDe(eventos_ocurridos, k))
        /\ personajes[k].victorias = Cuenta(k, LAMBDA v : v > 0)
        /\ personajes[k].derrotas = Cuenta(k, LAMBDA v : v < 0)

\* the evento_id fields of a sequence of records
Ids(regs) == [j \in 1..Len(regs) |-> regs[j].evento_id]

\* C7: k Characteristic events applied to a character whose field starts
\* absent leave a list of exactly k records, in application order, each with
\* the id of the event that produced it.
C7_ListaEnOrden ==
    \A k \in 1..Len(personajes) :
        LET contactos == SelectSeq(RegistrosDe(eventos_ocurridos, k),
                                   LAMBDA reg : reg.tipo = "caracteristica")
            r1 == personajes[k].reservado1
        IN IF contactos = <<>> THEN r1.t = "None"
           ELSE r1.t = "list" /\ Ids(r1.lista) = Ids(contactos)

\* C7 witness: two different Characteristic events were applied to one character
C7_Testigo ==
    \E k \in 1..Len(personajes) :
        /\ personajes[k].reservado1.t = "list"
        /\ Ids(personajes[k].reservado1.lista) = <<"C2", "C1">>

\* the new record carries the data of the event that was applied
C8_EsNuevo(reg, e) ==
    /\ reg.evento_id = e.id
    /\ reg.fuerza = e.fuerza
    /\ reg.es_bendicion = e.es_bendicion
    /\ reg.efecto = e.efecto

\* the synthesized record preserves the legacy counter n
C8_EsHistorico(reg, n) ==
    /\ reg.evento_id = "legacy"
    /\ reg.fuerza = "Historico"
    /\ reg.contador = n

\* the cases of C8 that do not depend on the value of a legacy counter
C8_FormasComunes(antes, lista, e) ==
    /\ antes.t \in {"falta", "None", "otro"} => (Len(lista) = 1 /\ C8_EsNuevo(lista[1], e))
    /\ antes.t = "list" => /\ Len(lista) = Len(antes.lista) + 1
                           /\ SubSeq(lista, 1, Len(antes.lista)) = antes.lista
                           /\ C8_EsNuevo(lista[Len(lista)], e)

\* C8 as stated: a legacy integer counter of any value becomes a list of
\* exactly two records, the historic one preserving it and the new one.
C8_Original ==
    (ultima.op = "aplicar" /\ ultima.evento.tipo = "caracteristica") =>
        LET antes == ultima.antes.reservado1
            r1 == personajes[1].reservado1
        IN /\ r1.t = "list"
           /\ C8_FormasComunes(antes, r1.lista, ultima.evento)
           /\ antes.t = "int" => /\ Len(r1.lista) = 2
                                 /\ C8_EsHistorico(r1.lista[1], antes.n)
                                 /\ C8_EsNuevo(r1.lista[2], ultima.evento)

\* C8 amended: a legacy counter n > 0 becomes the historic record preserving n
\* followed by the new record; a counter n <= 0 becomes the new record alone.
\* Absent or any other type: the new record alone; a list: the same list with
\* the new record appended.
C8_NormalizaPorForma ==
    (ultima.op = "aplicar" /\ ultima.evento.tipo = "caracteristica") =>
        LET antes == ultima.antes.reservado1
            r1 == personajes[1].reservado1
        IN /\ r1.t = "list"
           /\ C8_FormasComunes(antes, r1.lista, ultima.evento)
           /\ (antes.t = "int" /\ antes.n > 0) =>
                  /\ Len(r1.lista) = 2
                  /\ C8_EsHistorico(r1.lista[1], antes.n)
                  /\ C8_EsNuevo(r1.lista[2], ultima.evento)
           /\ (antes.t = "int" /\ antes.n <= 0) =>
                  (Len(r1.lista) = 1 /\ C8_EsNuevo(r1.lista[1], ultima.evento))

\* C8 witness: a legacy counter of 2 was converted
C8_Testigo ==
    /\ ultima.op = "aplicar"
    /\ ultima.evento.tipo = "caracteristica"
    /\ ultima.antes.reservado1.t = "int"
    /\ ultima.antes.reservado1.n = 2
    /\ Len(personajes[1].reservado1.lista) = 2

\* C9: for a character with the eight attributes at 50 whose class has no
\* entry in the modifier table, calcular_pesos gives exactly 20 to each of the
\* five categories.
C9_VeintePorCategoria ==
    (/\ ultima.op \in {"evento", "omitido"}
     /\ \A a \in Atributos : ultima.antes.abs[a] = 50
     /\ ultima.antes.clase \notin DOMAIN MOD_CLASE(tabla))
        => \A cat \in Categorias : ultima.pesos[cat].num = 20 * ultima.pesos[cat].den

\* C9 witness: the weights were computed for such a character
C9_Testigo ==
    /\ ultima.op = "evento"
    /\ \A a \in Atributos : ultima.antes.abs[a] = 50
    /\ ultima.antes.clase \notin DOMAIN MOD_CLASE(tabla)
    /\ ultima.pesos["mistico"].den = 100

\* C10: a global Equipment event on success adds its bonus to each of the
\* eight attributes, clamps each at 0 and recomputes the total; on failure it
\* changes none of the eight attributes nor the total.
C10_GlobalTodosONinguno ==
    (ultima.op = "aplicar" /\ ultima.evento.clase = "EventoEquipoGlobal") =>
        LET p == personajes[1]
            b == ultima.evento.bonus_exito
        IN /\ ultima.resultado = "EXITO" =>
                  /\ \A a \in Atributos :
                        p.abs[a] = IF ultima.antes.abs[a] + b < 0 THEN 0
                                   ELSE ultima.antes.abs[a] + b
                  /\ p.suma = p.abs["F"] + p.abs["RM"] + p.abs["RF"] + p.abs["A"]
                                + p.abs["I"] + p.abs["M"] + p.abs["E"] + p.abs["C"]
           /\ ultima.resultado = "FRACASO" =>
                  (p.abs = ultima.antes.abs /\ p.suma = ultima.antes.suma)

\* C10 witness: a successful global event whose bonus took an attribute below 0
C10_Testigo ==
    /\ ultima.op = "aplicar"
    /\ ultima.evento.clase = "EventoEquipoGlobal"
    /\ ultima.resultado = "EXITO"
    /\ \E a \in Atributos :
          /\ ultima.antes.abs[a] > 0
          /\ ultima.antes.abs[a] + ultima.evento.bonus_exito < 0
          /\ personajes[1].abs[a] = 0
    /\ \E a \in Atributos : personajes[1].abs[a] = ultima.antes.abs[a] + ultima.evento.bonus_exito

\* what the claim compares of a character: attribute values, total, counters
\* and alive flag
C11_Visible(p) ==
    [abs |-> p.abs, suma |-> p.suma, eventos_vida |-> p.eventos_vida,
     victorias |-> p.victorias, derrotas |-> p.derrotas, vivo |-> p.vivo]

\* C11: two runs from the same loaded roster, catalogs and configuration and
\* the same random draws have the same event log (events, outcomes, deaths,
\* snapshots) and the same attribute values, counters and alive flags for
\* every character, whatever the clock and the event objects' leftovers.
C11_MismaCorrida ==
    (pc \in {"simulando", "fin"}) =>
        /\ gemelo.eventos_ocurridos = eventos_ocurridos
        /\ gemelo.personajes_muertos = personajes_muertos
        /\ Len(gemelo.personajes) = Len(personajes)
        /\ \A k \in 1..Len(personajes) :
              C11_Visible(gemelo.personajes[k]) = C11_Visible(personajes[k])

\* C11 witness: both runs ended after a death, with different clock readings
\* stored in the characteristic records of a character
C11_Testigo ==
    /\ pc = "fin"
    /\ \E j \in 1..Len(eventos_ocurridos) : eventos_ocurridos[j].murio
    /\ \E k \in 1..Len(personajes) :
          gemelo.personajes[k].reservado1 # personajes[k].reservado1

\* at most N events are resolved against a character, N = eventos_por_personaje
C12_Presupuesto ==
    /\ i <= config.eventos_por_personaje
    /\ \A k \in 1..Len(personajes) :
          Len(RegistrosDe(eventos_ocurridos, k)) <= config.eventos_por_personaje

\* the turns of a character end because it died or because N were consumed
C12_FinDeTurnos ==
    (pc = "simulando" /\ idx_pj' = idx_pj + 1)
        => (i = config.eventos_por_personaje \/ ~personajes[EnTurno].vivo)

\* C12: the simulation loop terminates for every roster and every N; at most
\* N events are resolved against each character, the loop always has a next
\* step until it returns, and a character's turns end either because it died
\* or because N iterations were consumed.
C12_TerminaConPresupuesto ==
    /\ [](C12_Presupuesto)
    /\ [](pc = "simulando" => ENABLED Next)
    /\ [][C12_FinDeTurnos]_vars
    /\ (pc = "simulando") ~> (pc = "fin")

\* C12 witness: a run ended in which one character died and another one
\* used its whole budget
C12_Testigo ==
    /\ pc = "fin"
    /\ \E k \in 1..Len(personajes) : ~personajes[k].vivo
    /\ \E k \in 1..Len(personajes) :
          /\ personajes[k].vivo
          /\ Len(RegistrosDe(eventos_ocurridos, k)) = config.eventos_por_personaje

\* C13: in a run from a fresh load the dead-roster holds exactly the roster
\* characters whose alive flag is false, each once; marking a character that
\* is already dead changes nothing and returns false; and a dead character
\* stays in the main roster.
C13_MuertosSonLosNoVivos ==
    LET muertos == obtener_muertos(personajes_muertos)
    IN /\ \A a \in 1..Len(muertos), b \in 1..Len(muertos) : muertos[a] = muertos[b] => a = b
       /\ {muertos[a] : a \in 1..Len(muertos)} = {k \in 1..Len(personajes) : ~personajes[k].vivo}
       /\ \A k \in 1..Len(personajes) :
             ~personajes[k].vivo =>
                 /\ marcar_como_muerto(personajes[k]) = personajes[k]
                 /\ MuertosTrasMarcar(personajes_muertos, k, personajes[k]) = personajes_muertos
                 /\ ~marcar_como_muerto_retorno(personajes[k])
       /\ Len(personajes) = Len(personajes_originales)
       /\ \A k \in 1..Len(personajes) : personajes[k].codigo = personajes_originales[k].codigo

\* C13 witness: the run ended with the second character of the roster dead
\* and the first one alive
C13_Testigo ==
    /\ pc = "fin"
    /\ Len(personajes) = 2
    /\ personajes_muertos = <<2>>
    /\ personajes[1].vivo
    /\ ~personajes[2].vivo

\* the fields of a character that are fixed at generation time
C14_Fijos(p) ==
    [codigo |-> p.codigo, raza |-> p.raza, subraza |-> p.subraza, myb |-> p.myb,
     variante |-> p.variante, clase |-> p.clase, clave_clase |-> p.clave_clase,
     val |-> p.val, tipo |-> p.tipo]

\* a step of the loaded simulator keeps the roster's length and fixed fields
C14_PasoSinCambio ==
    pc \in {"cargado", "simulando"} =>
        (/\ Len(personajes') = Len(personajes)
         /\ \A k \in 1..Len(personajes) : C14_Fijos(personajes'[k]) = C14_Fijos(personajes[k]))

\* C14: once the roster is loaded, no step of the simulation loop and no event
\* changes a character's identity fields, its eight raw modifier levels or its
\* classification tag: they stay those of the generator's record.
C14_IdentidadFija ==
    /\ [](\A k \in 1..Len(personajes) : C14_Fijos(personajes[k]) = C14_Fijos(personajes_originales[k]))
    /\ [][C14_PasoSinCambio]_vars

\* C14 witness: an event took a character's total across the threshold of
\* the first hero tier and the tag is still the one given at generation
C14_Testigo ==
    /\ ultima.op = "evento"
    /\ ultima.antes.suma < 450
    /\ personajes[ultima.pj].suma >= 450
    /\ personajes[ultima.pj].tipo = "Normal"
    /\ classify_character(ultima.antes.abs, ultima.antes.suma) = "Normal"
    /\ classify_character(personajes[ultima.pj].abs, personajes[ultima.pj].suma) = "Heroe"

\* C15: when the load of a category's event file fails (file missing, not
\* parsable, or an error raised while processing one of its definitions) the
\* load reports 0 and the category's catalog holds no event afterwards.
C15_FalloDejaCatalogoVacio ==
    pc # "construido" =>
        \A tipo \in {"equipo", "atributo", "caracteristica"} :
            conteo[tipo] = 0 => eventos[tipo] = {}

C17_EsElCaso ==
    /\ ultima.op = "aplicar"
    /\ ultima.evento.tipo = "atributo"
    /\ ultima.resultado # None

C17_Principal == obtener_indice_atributo(ultima.evento.atributo_principal)

C17_HaySecundario == ultima.evento.atributo_secundario # None

C17_Secundario == obtener_indice_atributo(ultima.evento.atributo_secundario)

\* the effect as the claim words it
C17_Efecto ==
    LET pri == C17_Principal
        sec == C17_Secundario
        haySec == C17_HaySecundario
        v == ResultadoEvento[ultima.resultado]
        antes == ultima.antes.abs
        ahora == personajes[1].abs
    IN /\ v \in {3, 1, 0, -1, -3}
       /\ ahora[pri] = Max0(antes[pri] + v)
       /\ (haySec /\ v = 3) => ahora[sec] = Max0(antes[sec] + 1)
       /\ (haySec /\ v = -3) => ahora[sec] = Max0(antes[sec] - 1)
       /\ (haySec /\ v \in {1, 0, -1}) => ahora[sec] = antes[sec]
       /\ \A a \in Atributos \ ({pri} \cup (IF haySec THEN {sec} ELSE {})) :
             ahora[a] = antes[a]
       /\ personajes[1].suma = SumaAtributos(ahora)

\* C17 as stated: EventoAtributo.aplicar_consecuencias with an outcome of
\* value v makes the primary max(0, primary + v); with a secondary attribute
\* configured, the secondary becomes max(0, secondary + sign(v)) for |v| = 3
\* and is unchanged for v in {1, 0, -1}; no other attribute changes; the
\* total is the sum of the eight.
C17_Original == C17_EsElCaso => C17_Efecto

\* C17 amended: the effect is as stated when the secondary attribute, if any,
\* is another attribute than the primary; when both are the same attribute it
\* takes the two deltas in turn, max(0, max(0, a + v) + sign(v)) for |v| = 3
\* and max(0, a + v) otherwise, nothing else changes and the total is the sum
\* of the eight.
C17_ConsecuenciasDeAtributo ==
    C17_EsElCaso =>
        IF C17_HaySecundario /\ C17_Secundario = C17_Principal
        THEN LET a == C17_Principal
                 v == ResultadoEvento[ultima.resultado]
                 antes == ultima.antes.abs
                 ahora == personajes[1].abs
             IN /\ v = 3 => ahora[a] = Max0(Max0(antes[a] + 3) + 1)
                /\ v = -3 => ahora[a] = Max0(Max0(antes[a] - 3) - 1)
                /\ v \in {1, 0, -1} => ahora[a] = Max0(antes[a] + v)
                /\ \A b \in Atributos \ {a} : ahora[b] = antes[b]
                /\ personajes[1].suma = SumaAtributos(ahora)
        ELSE C17_Efecto

\* C17 witness: a critical failure on an event with a secondary attribute
\* took the primary from 2 to 0 and left the negative secondary at 0
C17_Testigo ==
    /\ ultima.op = "aplicar"
    /\ ultima.evento.id = "A1"
    /\ ultima.resultado = "FRACASO_EPICO"
    /\ ultima.antes.abs["F"] = 2
    /\ ultima.antes.abs["RF"] = -5
    /\ personajes[1].abs["F"] = 0
    /\ personajes[1].abs["RF"] = 0

\* the names of the calls, in order
NombresDePasos(pasos) == [k \in 1..Len(pasos) |-> pasos[k].paso]

\* the call of that name comes before the call of the other name
C18_Precede(nombres, uno, otro) ==
    \E a \in 1..Len(nombres), b \in 1..Len(nombres) :
        a < b /\ nombres[a] = uno /\ nombres[b] = otro

\* an Attribute-Check event was executed
C18_EsElCaso == ultima.op = "evento" /\ ultima.evento.tipo = "atributo"

\* the consequences of a fatal event are in the record before the flag is
\* cleared, and so in the final record and in the log's 'despues' snapshot
C18_FatalConConsecuencias(pasos) ==
    ultima.murio =>
        LET antes == ultima.antes
            final == personajes[ultima.pj]
            aplicado == pasos[Len(pasos) - 2].personaje
            contado == pasos[Len(pasos) - 1].personaje
            pri == obtener_indice_atributo(ultima.evento.atributo_principal)
            registro == eventos_ocurridos[Len(eventos_ocurridos)]
        IN /\ ultima.resultado = "FRACASO_EPICO"
           /\ Len(pasos) >= 3
           /\ pasos[Len(pasos) - 2].paso = "aplicar_consecuencias"
           /\ pasos[Len(pasos) - 1].paso = "registrar_evento"
           /\ pasos[Len(pasos)].paso = "marcar_como_muerto"
           /\ aplicado = aplicar_consecuencias_atributo(ultima.evento, antes, "FRACASO_EPICO")
           /\ aplicado.vivo /\ contado.vivo
           /\ final = [contado EXCEPT !.vivo = FALSE]
           /\ final.abs = aplicado.abs
           /\ final.abs[pri] <= Max0(antes.abs[pri] - 3)
           /\ final.suma = SumaAtributos(final.abs)
           /\ final.eventos_vida = antes.eventos_vida + 1
           /\ final.derrotas = antes.derrotas + 1
           /\ final.victorias = antes.victorias
           /\ registro.murio
           /\ registro.despues = Instantanea(final)

\* C18 as stated: within one Attribute-Check event the steps are, in this
\* order, resolve, apply the consequences, probe for death; and the
\* consequences of a fatal event are applied before the alive flag is cleared,
\* so the final record and the log's 'despues' snapshot include them.
C18_Original ==
    C18_EsElCaso =>
        LET pasos == PasosDeEjecutar(ultima.evento, ultima.antes, ultima.resultado,
                                     ultima.murio, reloj)
            nombres == NombresDePasos(pasos)
        IN /\ C18_Precede(nombres, "calcular_resultado", "aplicar_consecuencias")
           /\ C18_Precede(nombres, "aplicar_consecuencias", "probar_muerte")
           /\ C18_FatalConConsecuencias(pasos)

\* C18 amended: within one Attribute-Check event the steps are, in this order,
\* resolve, probe for death, apply the consequences, count the event, and, if
\* the probe was true, mark the death; the probe reads the record as it was
\* before the event; and the consequences of a fatal event are applied before
\* the alive flag is cleared, so the final record and the log's 'despues'
\* snapshot include them.
C18_ResolverProbarAplicar ==
    C18_EsElCaso =>
        LET pasos == PasosDeEjecutar(ultima.evento, ultima.antes, ultima.resultado,
                                     ultima.murio, reloj)
        IN /\ NombresDePasos(pasos) =
                  <<"calcular_resultado", "probar_muerte", "aplicar_consecuencias",
                    "registrar_evento">>
                  \o (IF ultima.murio THEN <<"marcar_como_muerto">> ELSE <<>>)
           /\ pasos[2].personaje = ultima.antes
           /\ pasos[Len(pasos)].personaje = personajes[ultima.pj]
           /\ C18_FatalConConsecuencias(pasos)

\* C18 witness: a character died of an Attribute-Check event that also took
\* points from its primary attribute and from its total
C18_Testigo ==
    /\ C18_EsElCaso
    /\ ultima.murio
    /\ ~personajes[ultima.pj].vivo
    /\ personajes[ultima.pj].suma < ultima.antes.suma
    /\ eventos_ocurridos[Len(eventos_ocurridos)].despues.suma < ultima.antes.suma

\* the catalog the personalised selection draws from for a category
C19_CatalogoDe(categoria) ==
    IF categoria = "mistico" THEN eventos.caracteristica ELSE eventos.atributo

\* a step of the inner loop that ends in `continue`
C19_PasoOmitido ==
    (/\ pc = "simulando" /\ pc' = "simulando"
     /\ idx_pj' = idx_pj
     /\ ultima'.op = "omitido")
        => /\ personajes' = personajes
           /\ personajes_muertos' = personajes_muertos
           /\ eventos_ocurridos' = eventos_ocurridos
           /\ i < config.eventos_por_personaje
           /\ i' = i + 1

\* the fallback is taken exactly when the category's catalog gave no event,
\* and the turn is skipped only after the fallback gave none either
C19_Fallback ==
    ultima.op \in {"evento", "omitido"} =>
        /\ ultima.fallback <=> C19_CatalogoDe(ultima.categoria) = {}
        /\ ultima.op = "omitido" =>
               /\ ultima.fallback
               /\ \E tipo \in seleccionar_tipo_evento : eventos[tipo] = {}
        /\ (ultima.op = "evento" /\ ultima.fallback) =>
               \E tipo \in seleccionar_tipo_evento : ultima.evento \in eventos[tipo]

\* C19: when the category's catalog gives no event the loop falls back to the
\* draw by type, and when that gives none either the turn is skipped: the
\* roster, the dead-roster and the log are unchanged, and the turn still uses
\* one of the N iterations of the character's budget.
C19_TurnoOmitido ==
    /\ [](C19_Fallback)
    /\ []((pc = "simulando" /\ idx_pj <= Len(personajes_vivos))
              => Len(RegistrosDe(eventos_ocurridos, EnTurno)) <= i)
    /\ [][C19_PasoOmitido]_vars

\* C19 witness: the run ended and a character that was skipped in its last
\* turn is alive with fewer log records than the N turns it was given
C19_Testigo ==
    /\ pc = "fin"
    /\ ultima.op = "omitido"
    /\ personajes[ultima.pj].vivo
    /\ personajes[ultima.pj] = ultima.antes
    /\ config.eventos_por_personaje = 2
    /\ Len(RegistrosDe(eventos_ocurridos, ultima.pj)) = 1

\* the pair of primary attributes the claim gives for a category
C20_Par(categoria) ==
    CASE categoria = "combate" -> {"F", "RF"}
      [] categoria = "magia" -> {"RM", "M"}
      [] categoria = "exploracion" -> {"A", "I"}
      [] categoria = "social" -> {"E", "C"}

\* C20: the event the personalised selection returns comes from the catalog
\* of the sampled category: from the Characteristic catalog for mistico; for
\* combate, magia, exploracion and social an Attribute-Check event whose
\* primary attribute is in the category's pair when the Attribute-Check
\* catalog holds such an event, and any Attribute-Check event otherwise.
C20_CategoriaDecideCatalogo ==
    (ultima.op = "evento" /\ ~ultima.fallback) =>
        /\ ultima.categoria \in Categorias
        /\ ultima.pesos[ultima.categoria].num > 0
        /\ ultima.categoria = "mistico" =>
               /\ ultima.evento \in eventos.caracteristica
               /\ ultima.evento.tipo = "caracteristica"
        /\ ultima.categoria # "mistico" =>
               /\ ultima.evento \in eventos.atributo
               /\ ultima.evento.tipo = "atributo"
               /\ (\E e \in eventos.atributo : e.atributo_principal \in C20_Par(ultima.categoria))
                      => ultima.evento.atributo_principal \in C20_Par(ultima.categoria)

\* C20 witness: with both Attribute-Check events loaded, the category combate
\* was sampled and the event on F was executed
C20_Testigo ==
    /\ ultima.op = "evento"
    /\ ~ultima.fallback
    /\ ultima.categoria = "combate"
    /\ eventos.atributo = Rango(DatosAtributo)
    /\ ultima.evento.atributo_principal = "F"

\* max(0, floor((valor - 50) / divisor)), written out
C21_Bono(valor, divisor) ==
    LET piso == CHOOSE q \in -60..60 : q * divisor <= valor - 50 /\ valor - 50 < (q + 1) * divisor
    IN IF piso > 0 THEN piso ELSE 0

\* the weight the claim gives to a category before normalisation
C21_Esperado(p, cat) ==
    20
    + (CASE cat = "combate" -> C21_Bono(p.abs["F"], 10) + C21_Bono(p.abs["RF"], 10)
         [] cat = "magia" -> C21_Bono(p.abs["RM"], 10) + C21_Bono(p.abs["M"], 10)
         [] cat = "exploracion" -> C21_Bono(p.abs["A"], 10) + C21_Bono(p.abs["I"], 10)
         [] cat = "social" -> C21_Bono(p.abs["E"], 10) + C21_Bono(p.abs["C"], 10)
         [] cat = "mistico" -> C21_Bono(p.abs["E"], 15))
    + (IF p.clase \in DOMAIN MOD_CLASE(tabla) THEN MOD_CLASE(tabla)[p.clase][cat] ELSE 0)

\* C21: before normalisation the weight of each category is 20, plus
\* max(0, floor((attr - 50) / 10)) for each attribute of the category's pair
\* (for mistico, max(0, floor((E - 50) / 15))), plus the modifier of the class
\* table for that category when the class name is in the table and 0 when it
\* is not; E counts for social and for mistico.
C21_PesoAntesDeNormalizar ==
    ultima.op = "pesos" =>
        \A cat \in Categorias : ultima.crudos[cat] = C21_Esperado(ultima.antes, cat)

\* C21 witness: the weights were computed for a character with E above 65 whose
\* class is in the table, and E raised both social and mistico
C21_Testigo ==
    /\ ultima.op = "pesos"
    /\ ultima.antes.abs["E"] >= 65
    /\ ultima.antes.clase \in DOMAIN MOD_CLASE(tabla)
    /\ ultima.crudos["social"] > 20 + C21_Bono(ultima.antes.abs["C"], 10)
                                    + MOD_CLASE(tabla)[ultima.antes.clase]["social"]
    /\ ultima.crudos["mistico"] > 20 + MOD_CLASE(tabla)[ultima.antes.clase]["mistico"]

\* how many parts of a split key are in the set of names
C22_Cuantos(partes, nombres) == Cardinality({k \in 1..Len(partes) : partes[k] \in nombres})

\* the summed delta of each category as the claim gives it
C22_Suma(partes) ==
    [combate |-> 3 * C22_Cuantos(partes, {"F", "RF"}),
     magia |-> 3 * C22_Cuantos(partes, {"RM", "M"}),
     exploracion |-> 3 * C22_Cuantos(partes, {"A", "I"}),
     social |-> C22_Cuantos(partes, {"E"}) + 3 * C22_Cuantos(partes, {"C"}),
     mistico |-> 2 * C22_Cuantos(partes, {"E"})]

\* the three keys the claim works out
C22_Ejemplos ==
    [F_RF |-> [combate |-> 3, magia |-> 0, exploracion |-> 0, social |-> 0, mistico |-> 0],
     F_M |-> [combate |-> 1, magia |-> 1, exploracion |-> 0, social |-> 0, mistico |-> 0],
     F_E |-> [combate |-> 1, magia |-> 0, exploracion |-> 0, social |-> 0, mistico |-> 1]]

\* C22: the modifier built from a class key is, per governing attribute, +3
\* combate for F/RF, +3 magia for RM/M, +3 exploracion for A/I, +2 mistico and
\* +1 social for E, +3 social for C; for a two-attribute key each category's
\* sum is replaced by its integer division by 2: F_RF gives combate 3, F_M
\* gives combate 1 and magia 1, F_E gives combate 1, mistico 1 and social 0.
C22_ModificadorDeClave ==
    ultima.op = "clase" =>
        LET partes == Claves[ultima.categoria]
            suma == C22_Suma(partes)
        IN /\ \A cat \in Categorias :
                ultima.crudos[cat] = IF Len(partes) = 2 THEN Piso(suma[cat], 2) ELSE suma[cat]
           /\ ultima.categoria \in DOMAIN C22_Ejemplos =>
                ultima.crudos = C22_Ejemplos[ultima.categoria]

\* C22 witness: the modifier was built from the key F_E and the odd sums of
\* combate and social were halved downwards
C22_Testigo ==
    /\ ultima.op = "clase"
    /\ ultima.categoria = "F_E"
    /\ ultima.crudos["combate"] = 1
    /\ ultima.crudos["social"] = 0
    /\ ultima.crudos["mistico"] = 1

\* the record after the call has the attributes in ahora and their sum as
\* total, and is otherwise the record before it
C23_SoloAtributos(ahora) ==
    personajes[1] = [ultima.antes EXCEPT !.abs = ahora, !.suma = SumaAtributos(ahora)]

\* the attributes after adding delta to attribute a and clamping it at 0
C23_Con(abs, a, delta) ==
    [abs EXCEPT ![a] = IF abs[a] + delta < 0 THEN 0 ELSE abs[a] + delta]

\* C23: calcular_resultado of an Equipment event returns success or failure
\* and leaves the character as it was.  aplicar_consecuencias on success
\* changes, for the simple sub-variant, only its attribute (by the bonus,
\* clamped at 0) and, for the two-attribute sub-variant, only the primary (by
\* the bonus) and the secondary (by the possibly negative delta), each clamped
\* at 0; on failure the two-attribute and global sub-variants leave the whole
\* record as it was, and the simple sub-variant adds its failure delta to its
\* attribute, clamps it at 0 and recomputes the total.
C23_EquipoResuelveYAplica ==
    LET e == ultima.evento
        antes == ultima.antes.abs
        pri == obtener_indice_atributo(e.atributo_principal)
        sec == obtener_indice_atributo(e.atributo_secundario)
    IN /\ ultima.op = "resolver" =>
              /\ ultima.resultado \in {"EXITO", "FRACASO"}
              /\ personajes[1] = ultima.antes
       /\ (ultima.op = "aplicar" /\ e.clase = "EventoEquipoSimple") =>
              /\ ultima.resultado = "EXITO" =>
                    C23_SoloAtributos(C23_Con(antes, pri, e.bonus_exito))
              /\ ultima.resultado = "FRACASO" =>
                    C23_SoloAtributos(C23_Con(antes, pri, e.bonus_fracaso))
       /\ (ultima.op = "aplicar" /\ e.clase = "EventoEquipoDoble") =>
              /\ ultima.resultado = "EXITO" =>
                    IF pri # sec
                    THEN C23_SoloAtributos(
                             C23_Con(C23_Con(antes, pri, e.bonus_exito), sec, e.penalizacion))
                    ELSE C23_SoloAtributos(
                             C23_Con(antes, pri, e.bonus_exito + e.penalizacion))
              /\ ultima.resultado = "FRACASO" => personajes[1] = ultima.antes
       /\ (ultima.op = "aplicar" /\ e.clase = "EventoEquipoGlobal") =>
              (ultima.resultado = "FRACASO" => personajes[1] = ultima.antes)

\* C23 witness: a successful two-attribute event raised its primary by the
\* bonus and lowered its secondary by the negative delta
C23_Testigo ==
    /\ ultima.op = "aplicar"
    /\ ultima.evento.id = "E2"
    /\ ultima.resultado = "EXITO"
    /\ personajes[1].abs["RM"] = ultima.antes.abs["RM"] + 5
    /\ personajes[1].abs["RF"] = ultima.antes.abs["RF"] - 3
    /\ personajes[1].abs["RF"] > 0

\* C23 witness of the other half: a failed simple event with a negative
\* failure delta took its attribute to the clamp
C23_TestigoFracaso ==
    /\ ultima.op = "aplicar"
    /\ ultima.evento.id = "E1"
    /\ ultima.resultado = "FRACASO"
    /\ ultima.antes.abs["F"] = 2
    /\ personajes[1].abs["F"] = 0

C25_CamposGenerados ==
    {"codigo", "raza", "subraza", "myb", "variante", "clase", "clave_clase",
     "val", "abs", "suma", "tipo"}

\* the generator record with the code of the working record at position k
C25_ComoSeCargo(k) == CHOOSE g \in Plantillas : g.codigo = personajes[k].codigo

\* right after the load every working record is its input followed by the six
\* simulation fields; from then on the snapshot holds the records as loaded
C25_Estado ==
    /\ pc = "cargado" =>
          /\ Len(personajes) = Len(personajes_originales)
          /\ \A k \in 1..Len(personajes) :
                LET p == personajes[k]
                IN /\ DOMAIN p = C25_CamposGenerados \cup
                                   {"eventos_vida", "victorias", "derrotas", "vivo",
                                    "reservado1", "reservado2"}
                   /\ \A f \in C25_CamposGenerados : p[f] = personajes_originales[k][f]
                   /\ p.eventos_vida = 0 /\ p.victorias = 0 /\ p.derrotas = 0
                   /\ p.vivo = TRUE
                   /\ p.reservado1 = ReservadoNone /\ p.reservado2 = None
    /\ pc \in {"cargado", "simulando", "fin"} =>
          /\ Len(personajes_originales) = Len(personajes)
          /\ \A k \in 1..Len(personajes) :
                /\ DOMAIN personajes_originales[k] = C25_CamposGenerados
                /\ personajes_originales[k] = C25_ComoSeCargo(k)

\* no step after the load changes the snapshot
C25_Paso ==
    pc \in {"cargado", "simulando"} => personajes_originales' = personajes_originales

\* C25: loading a roster gives, for each generator record, a working record
\* equal to the input followed by the six simulation fields (events 0, wins 0,
\* losses 0, alive true, two empty slots) and keeps a separate snapshot of the
\* initial roster that no event execution changes: at the end of a run the
\* snapshot equals the records as loaded.
C25_CargaYCopiaIntacta == [](C25_Estado) /\ [][C25_Paso]_vars

\* C25 witness: a run ended with a working record whose attributes and alive
\* flag differ from the loaded ones while the snapshot holds the loaded record
C25_Testigo ==
    /\ pc = "fin"
    /\ \E k \in 1..Len(personajes) :
          /\ personajes[k].abs # personajes_originales[k].abs
          /\ ~personajes[k].vivo
          /\ personajes_originales[k] \in Plantillas

\* C26: for an Attribute-Check event executed on any character the generator
\* can produce, a failure or critical failure never leaves the primary or the
\* secondary attribute higher than it was before the event, and a success or
\* critical success never leaves it lower.
C26_FracasoNoSubeExitoNoBaja ==
    (ultima.op = "evento" /\ ultima.evento.clase = "EventoAtributo") =>
        LET e == ultima.evento
            antes == ultima.antes.abs
            ahora == personajes[ultima.pj].abs
            tocados == {obtener_indice_atributo(e.atributo_principal)} \cup
                       (IF e.atributo_secundario # None
                        THEN {obtener_indice_atributo(e.atributo_secundario)} ELSE {})
        IN /\ ultima.resultado \in {"FRACASO", "FRACASO_EPICO"} =>
                 \A a \in tocados : ahora[a] <= antes[a]
           /\ ultima.resultado \in {"EXITO", "EXITO_EPICO"} =>
                 \A a \in tocados : ahora[a] >= antes[a]

\* the length of the characteristic list held in RESERVADO1
C27_Caracteristicas(p) == IF p.reservado1.t = "list" THEN Len(p.reservado1.lista) ELSE 0

C28_EquipoSoloPorFallback ==
    /\ (eventos.atributo # {} /\ eventos.caracteristica # {}) =>
          /\ \A j \in 1..Len(eventos_ocurridos) : eventos_ocurridos[j].tipo # "equipo"
          /\ ultima.op = "evento" => (~ultima.fallback /\ ultima.evento.tipo # "equipo")
    /\ ultima.op = "evento" =>
          /\ ultima.categoria \in Categorias
          /\ ~ultima.fallback =>
                ultima.evento.tipo =
                    IF ultima.categoria = "mistico" THEN "caracteristica" ELSE "atributo"
          /\ ultima.evento.tipo = "equipo" => ultima.fallback

\* C28 witness: the three catalogs hold events and two events were executed
C28_Testigo ==
    /\ eventos.equipo # {} /\ eventos.atributo # {} /\ eventos.caracteristica # {}
    /\ ultima.op = "evento"
    /\ Len(eventos_ocurridos) = 2
    /\ eventos_ocurridos[1].tipo # eventos_ocurridos[2].tipo

\* the other side of C28: with an empty Characteristic catalog an Equipment
\* event was executed, through the fallback
C28_TestigoFallback ==
    /\ eventos.caracteristica = {}
    /\ ultima.op = "evento"
    /\ ultima.fallback
    /\ ultima.evento.tipo = "equipo"

\* C29: for every character, negative attributes included, and every class
\* table the calculator can build, from class keys or the built-in default,
\* each of the five weights before normalisation is strictly positive; so the
\* total <= 0 branch of the normalisation is not taken and every category can
\* be drawn.  A modifier built from a class key is never negative.
C29_PesosPositivos ==
    /\ ultima.op = "pesos" =>
          /\ \A cat \in Categorias : ultima.crudos[cat] > 0
          /\ TotalPesos(ultima.crudos) > 0
          /\ \A cat \in Categorias :
                ultima.pesos[cat].num * TotalPesos(ultima.crudos)
                    = ultima.crudos[cat] * 100 * ultima.pesos[cat].den
          /\ seleccionar_categoria(ultima.pesos) = Categorias
    /\ ultima.op = "clase" => \A cat \in Categorias : ultima.crudos[cat] >= 0

\* C29 witness: the weights of a character whose attributes are all below 0
\* but two, and whose class is in the default table with negative modifiers
C29_Testigo ==
    /\ ultima.op = "pesos"
    /\ tabla = "defecto"
    /\ ultima.antes.clase = "Explorador"
    /\ ultima.antes.abs["E"] < 0
    /\ ultima.crudos["social"] = 18
    /\ ultima.pesos["social"].num > 0

\* C30: after any sequence of roster loads and simulations on the same
\* manager, a new roster loaded after a run with deaths included, every
\* character in the dead-roster belongs to the current roster and has alive =
\* false, and the size of the dead-roster is the number of characters of the
\* current roster with alive = false.
C30_MuertosDelRosterActual ==
    LET muertos == obtener_muertos(personajes_muertos)
    IN /\ \A j \in 1..Len(muertos) :
             /\ muertos[j] \in 1..Len(personajes)
             /\ ~personajes[muertos[j]].vivo
       /\ Len(muertos) = Cardinality({k \in 1..Len(personajes) : ~personajes[k].vivo})

====
